---- MODULE Spec2Model ----
(***************************************************************************)
(* The travel-planning ConversationEngine (components/ConversationEngine)  *)
(* as a state machine.  The engine's single mutable record `state` is the  *)
(* variable state; one call of getResponse is one step.  The reasoning     *)
(* gateway (this.llm.invoke) and the search gateway (tavilyClient.search)  *)
(* are oracles: every call either throws or returns one text of a small    *)
(* set, chosen with \E.                                                    *)
(*                                                                         *)
(* An optional field of TravelPlannerState is absent as None == <<>> and   *)
(* present as Some(v) == <<v>>; `key: undefined` in an update object makes *)
(* the field absent again.  A number that may be NaN is encoded the same   *)
(* way (NaN is <<>>).                                                      *)
(*                                                                         *)
(* Assumptions about the platform, stated once: the server runs on V8      *)
(* (Next.js), whose legacy Date parser reads a month-day text without a    *)
(* year as a date of the year 2001; the server's time zone is UTC, so all  *)
(* dates are whole days; the clock reads the day the prompts name          *)
(* (January 17, 2026).                                                     *)
(***************************************************************************)
EXTENDS Integers, Sequences, FiniteSets, TLC

VARIABLES state, reply, last, hist, engines, inflight

vars == <<state, reply, last, hist, engines, inflight>>

None == <<>>
Some(v) == <<v>>
IsSome(o) == o # <<>>
Val(o) == o[1]

\* const x = v; F(x): v is evaluated once and F applied to its value.
Bind(v, F(_)) == CHOOSE y \in {F(x) : x \in {v}} : TRUE

(***************************************************************************)
(* JavaScript string primitives, computed on TLA+ strings.                 *)
(***************************************************************************)
\* s.substring(a - 1, b), positions counted from 1: out-of-range ends are
\* clamped and an empty range gives "".
Sub(s, a, b) ==
    IF a > Len(s) \/ b < a THEN ""
    ELSE SubSeq(s, IF a < 1 THEN 1 ELSE a, IF b > Len(s) THEN Len(s) ELSE b)

\* s.charAt(i - 1)
Ch(s, i) == Sub(s, i, i)
UpperAlpha == "ABCDEFGHIJKLMNOPQRSTUVWXYZ"
LowerAlpha == "abcdefghijklmnopqrstuvwxyz"
Digits == "0123456789"

UpperLetters == {Ch(UpperAlpha, i) : i \in 1..Len(UpperAlpha)}
LowerLetters == {Ch(LowerAlpha, i) : i \in 1..Len(LowerAlpha)}
DigitChars == {Ch(Digits, i) : i \in 1..Len(Digits)}
LowerOf == [c \in UpperLetters |->
               Ch(LowerAlpha, CHOOSE i \in 1..Len(UpperAlpha) : Ch(UpperAlpha, i) = c)]
ValueOfDigit == [c \in DigitChars |-> (CHOOSE i \in 1..Len(Digits) : Ch(Digits, i) = c) - 1]

IsUpper(c) == c \in UpperLetters
IsLower(c) == c \in LowerLetters
IsLetter(c) == IsUpper(c) \/ IsLower(c)
IsDigit(c) == c \in DigitChars
IsSpace(c) == c = " "
DigitVal(c) == ValueOfDigit[c]

ToLowerCh(c) == IF IsUpper(c) THEN LowerOf[c] ELSE c

RECURSIVE toLowerCase(_)
toLowerCase(s) ==
    IF s = "" THEN ""
    ELSE IF Len(s) = 1 THEN ToLowerCh(s)
    ELSE toLowerCase(Sub(s, 1, Len(s) \div 2)) \o toLowerCase(Sub(s, Len(s) \div 2 + 1, Len(s)))

RECURSIVE trimStart(_)
trimStart(s) ==
    IF s # "" /\ IsSpace(Ch(s, 1)) THEN trimStart(Sub(s, 2, Len(s))) ELSE s

RECURSIVE trimEnd(_)
trimEnd(s) ==
    IF s # "" /\ IsSpace(Ch(s, Len(s))) THEN trimEnd(Sub(s, 1, Len(s) - 1)) ELSE s

trim(s) == trimEnd(trimStart(s))

includes(s, sub) ==
    \E i \in 1..(Len(s) - Len(sub) + 1) : Sub(s, i, i + Len(sub) - 1) = sub

\* The end of the maximal run of digits that starts at position i (i - 1 if none).
RECURSIVE DigitRunEnd(_, _)
DigitRunEnd(s, i) ==
    IF i <= Len(s) /\ IsDigit(Ch(s, i)) THEN DigitRunEnd(s, i + 1) ELSE i - 1

\* The end of the maximal run of digits and commas that starts at position i.
RECURSIVE DigitCommaRunEnd(_, _)
DigitCommaRunEnd(s, i) ==
    IF i <= Len(s) /\ (IsDigit(Ch(s, i)) \/ Ch(s, i) = ",")
    THEN DigitCommaRunEnd(s, i + 1) ELSE i - 1

\* The first position >= i that holds no white space.
RECURSIVE SkipSpaces(_, _)
SkipSpaces(s, i) ==
    IF i <= Len(s) /\ IsSpace(Ch(s, i)) THEN SkipSpaces(s, i + 1) ELSE i

RECURSIVE DecimalValue(_)
DecimalValue(s) ==
    IF s = "" THEN 0
    ELSE 10 * DecimalValue(Sub(s, 1, Len(s) - 1)) + DigitVal(Ch(s, Len(s)))

RECURSIVE removeCommas(_)
removeCommas(s) ==
    IF s = "" THEN ""
    ELSE (IF Ch(s, 1) = "," THEN "" ELSE Ch(s, 1)) \o removeCommas(Sub(s, 2, Len(s)))

HasDigit(s) == \E i \in 1..Len(s) : IsDigit(Ch(s, i))
FirstDigitPos(s) == CHOOSE i \in 1..Len(s) : IsDigit(Ch(s, i)) /\ \A j \in 1..(i - 1) : ~IsDigit(Ch(s, j))

\* parseInt(s): leading white space, an optional sign, then the longest
\* prefix of digits; NaN (None) when there is no digit there.
parseInt(s) ==
    Bind(trimStart(s), LAMBDA t :
    Bind(IF t # "" /\ Ch(t, 1) \in {"-", "+"} THEN 2 ELSE 1, LAMBDA from :
    Bind(DigitRunEnd(t, from), LAMBDA to :
        IF to < from THEN None
        ELSE Some((IF Ch(t, 1) = "-" THEN -1 ELSE 1) * DecimalValue(Sub(t, from, to))))))

\* s.match(/\d+/): the first maximal run of digits, or None.
matchDigits(s) ==
    IF HasDigit(s)
    THEN LET i == FirstDigitPos(s) IN Some(Sub(s, i, DigitRunEnd(s, i)))
    ELSE None

\* s.match(/\d+[\d,]*/g)[0]: the first run of digits and commas that starts
\* with a digit, or None.
matchAmountText(s) ==
    IF HasDigit(s)
    THEN LET i == FirstDigitPos(s) IN Some(Sub(s, i, DigitCommaRunEnd(s, i)))
    ELSE None

\* The pattern with \w in the place of a-zA-Z: digits pass.
looksLikeCityNameOrWord(s) ==
    /\ s # ""
    /\ \A i \in 1..Len(s) :
          LET c == Ch(s, i)
          IN  IsLetter(c) \/ IsDigit(c) \/ IsSpace(c) \/ c = "," \/ c = "-"

\* /^[a-zA-Z\s,\-]+$/.test(s)
looksLikeCityName(s) ==
    /\ s # ""
    /\ \A i \in 1..Len(s) :
          LET c == Ch(s, i) IN IsLetter(c) \/ IsSpace(c) \/ c = "," \/ c = "-"

\* /(\d{4})/.test(s)
hasFourDigits(s) ==
    \E i \in 1..(Len(s) - 3) : \A j \in i..(i + 3) : IsDigit(Ch(s, j))

(***************************************************************************)
(* The graph: node table, sentinels and edge table (buildStateGraph).      *)
(***************************************************************************)
START == "__start__"
END == "__end__"

AskNodes ==
    <<"ask_origin", "ask_destination", "ask_start_date", "ask_end_date",
      "ask_travelers", "ask_budget", "ask_purpose", "ask_planning_type">>

nodes ==
    {AskNodes[i] : i \in 1..Len(AskNodes)}
        \cup {"search_options", "handle_validation_issues", "generate_plan"}

\* True when either issue list of the state is set and non-empty.
HasIssues(s) ==
    \/ IsSome(s.scheduleIssues) /\ Len(Val(s.scheduleIssues)) > 0
    \/ IsSome(s.budgetIssues) /\ Len(Val(s.budgetIssues)) > 0

\* A conditional edge that looks at the schedule issues alone.
searchOptionsEdgeOnSchedule(s) ==
    IF IsSome(s.scheduleIssues) /\ Len(Val(s.scheduleIssues)) > 0
    THEN "handle_validation_issues" ELSE "generate_plan"

\* The conditional edge of search_options.
searchOptionsEdge(s) ==
    IF HasIssues(s) THEN "handle_validation_issues" ELSE "generate_plan"

\* The edge table with the edge out of ask_travelers drawn to an id that no
\* node is registered under.
getNextNodeToUnregistered(s, currentNode) ==
    CASE currentNode = START -> Some("ask_origin")
      [] currentNode = "ask_origin" -> Some("ask_destination")
      [] currentNode = "ask_destination" -> Some("ask_start_date")
      [] currentNode = "ask_start_date" -> Some("ask_end_date")
      [] currentNode = "ask_end_date" -> Some("ask_travelers")
      [] currentNode = "ask_travelers" -> Some("ask_currency")
      [] currentNode = "ask_budget" -> Some("ask_purpose")
      [] currentNode = "ask_purpose" -> Some("ask_planning_type")
      [] currentNode = "ask_planning_type" -> Some("search_options")
      [] currentNode = "search_options" -> Some(searchOptionsEdge(s))
      [] currentNode = "handle_validation_issues" -> Some("search_options")
      [] currentNode = "generate_plan" -> Some(END)
      [] OTHER -> None

\* edges.find(e => e.source === currentNode), with a function target applied
\* to the live state; None when the source has no edge.
getNextNode(s, currentNode) ==
    CASE currentNode = START -> Some("ask_origin")
      [] currentNode = "ask_origin" -> Some("ask_destination")
      [] currentNode = "ask_destination" -> Some("ask_start_date")
      [] currentNode = "ask_start_date" -> Some("ask_end_date")
      [] currentNode = "ask_end_date" -> Some("ask_travelers")
      [] currentNode = "ask_travelers" -> Some("ask_budget")
      [] currentNode = "ask_budget" -> Some("ask_purpose")
      [] currentNode = "ask_purpose" -> Some("ask_planning_type")
      [] currentNode = "ask_planning_type" -> Some("search_options")
      [] currentNode = "search_options" -> Some(searchOptionsEdge(s))
      [] currentNode = "handle_validation_issues" -> Some("search_options")
      [] currentNode = "generate_plan" -> Some(END)
      [] OTHER -> None

\* nextNode || fallback
OrElse(o, fallback) == IF IsSome(o) THEN Val(o) ELSE fallback

(***************************************************************************)
(* The state record.                                                       *)
(***************************************************************************)
OptionalFields ==
    {"originCity", "destinationCity", "startDate", "endDate", "travelers",
     "budget", "purpose", "planningType", "interests",
     "transportationResults", "accommodationResults", "activitiesResults",
     "searchValidationIssues", "budgetIssues", "scheduleIssues",
     "searchRetryCount", "transportationType", "flightsBudgetExceeded",
     "totalBudgetExceeded", "accommodationBudgetExceeded",
     "validationMessageShown", "budgetAllocation", "lastUserInput",
     "validationError", "responseMessage"}

createInitialState ==
    [k \in OptionalFields \cup {"currentNode", "conversationComplete"} |->
        CASE k = "currentNode" -> START
          [] k = "conversationComplete" -> FALSE
          [] k = "transportationType" -> Some("flights")
          [] OTHER -> None]

\* The targets exported for a conditional edge.
getPossibleTargets(source) ==
    CASE source = "search_options" -> {"handle_validation_issues", "generate_plan"}
      [] source = "handle_validation_issues" ->
            {"search_options", "generate_plan", "ask_start_date", "ask_planning_type"}
      [] OTHER -> {}

\* The exported edges: one per edge of the edge table, a fixed edge with its
\* one target, the conditional edge (of search_options) with its possible
\* targets.  The export reads the tables and assigns nothing.
exportGraphStructure ==
    {[source |-> a, target |-> {Val(getNextNode(createInitialState, a))}, condition |-> FALSE] :
        a \in ({START} \cup nodes) \ {"search_options"}}
    \cup {[source |-> "search_options", target |-> getPossibleTargets("search_options"),
           condition |-> TRUE]}

\* this.state = { ...this.state, ...updates }
updateState(s, updates) ==
    Bind(updates, LAMBDA u : [k \in DOMAIN s |-> IF k \in DOMAIN u THEN u[k] ELSE s[k]])

\* !state.lastUserInput: absent or the empty string.
NoInput(s) == ~IsSome(s.lastUserInput) \/ Val(s.lastUserInput) = ""

\* A string-valued optional field as text inside a message ("" when falsy).
Truthy(o) == IsSome(o) /\ o # Some("")

(***************************************************************************)
(* Calendar dates.  new Date(text) is the platform's parser; the model     *)
(* knows the three shapes the conversation uses: "YYYY-MM-DD",             *)
(* "Month D, YYYY" and "Month D" (read by V8 as a day of 2001).  A valid   *)
(* date is its day number counted from 2000-01-01; Invalid Date is None.   *)
(***************************************************************************)
MonthNames ==
    <<"January", "February", "March", "April", "May", "June", "July",
      "August", "September", "October", "November", "December">>
DaysBeforeMonth == <<0, 31, 59, 90, 120, 151, 181, 212, 243, 273, 304, 334>>
DaysInMonth == <<31, 28, 31, 30, 31, 30, 31, 31, 30, 31, 30, 31>>
IsLeap(y) == y % 4 = 0
LegacyDefaultYear == 2001

DayNumber(y, m, d) ==
    365 * (y - 2000) + ((y - 2000 + 3) \div 4) + DaysBeforeMonth[m]
        + (IF IsLeap(y) /\ m > 2 THEN 1 ELSE 0) + (d - 1)

ValidYMD(y, m, d) ==
    /\ y \in 2000..2099
    /\ m \in 1..12
    /\ d >= 1
    /\ d <= DaysInMonth[m] + (IF IsLeap(y) /\ m = 2 THEN 1 ELSE 0)

AllDigits(s) == s # "" /\ \A i \in 1..Len(s) : IsDigit(Ch(s, i))

IsIsoDate(s) ==
    /\ Len(s) = 10
    /\ Ch(s, 5) = "-" /\ Ch(s, 8) = "-"
    /\ AllDigits(Sub(s, 1, 4)) /\ AllDigits(Sub(s, 6, 7)) /\ AllDigits(Sub(s, 9, 10))

\* "Month D" or "Month D, YYYY": the month's index, the day text and the year
\* text ("" when there is none); <<0, "", "">> when the text has neither shape.
MonthDayParts(s) ==
    Bind({m \in 1..12 : Len(s) > Len(MonthNames[m]) + 1
                /\ Sub(s, 1, Len(MonthNames[m]) + 1) = MonthNames[m] \o " "}, LAMBDA ms :
    IF ms = {} THEN <<0, "", "">>
    ELSE Bind(CHOOSE x \in ms : TRUE, LAMBDA m :
         Bind(Len(MonthNames[m]) + 2, LAMBDA from :
         Bind(DigitRunEnd(s, from), LAMBDA to :
         Bind(Sub(s, to + 1, Len(s)), LAMBDA rest :
             IF to < from THEN <<0, "", "">>
             ELSE IF rest = "" THEN <<m, Sub(s, from, to), "">>
             ELSE IF Len(rest) = 6 /\ Sub(rest, 1, 2) = ", "
                        /\ AllDigits(Sub(rest, 3, 6))
                  THEN <<m, Sub(s, from, to), Sub(rest, 3, 6)>>
             ELSE <<0, "", "">>)))))

\* The date of a year, a month and a day that were read, if there is one.
DateOf(y, m, d) == IF ValidYMD(y, m, d) THEN Some(DayNumber(y, m, d)) ELSE None

newDate(text) ==
    IF IsIsoDate(text)
    THEN Bind(<<DecimalValue(Sub(text, 1, 4)), DecimalValue(Sub(text, 6, 7)),
                DecimalValue(Sub(text, 9, 10))>>, LAMBDA ymd :
             DateOf(ymd[1], ymd[2], ymd[3]))
    ELSE Bind(MonthDayParts(text), LAMBDA p :
             IF p[1] = 0 THEN None
             ELSE DateOf(IF p[3] = "" THEN LegacyDefaultYear ELSE DecimalValue(p[3]),
                         p[1], DecimalValue(p[2])))

\* new Date() with the hours cleared, and new Date().getFullYear().
CurrentYear == 2026
Today == DayNumber(CurrentYear, 1, 17)

(***************************************************************************)
(* The texts the engine puts into responseMessage and validationError.     *)
(* Values interpolated into a message are left out ("..."); the words the  *)
(* engine itself later tests for ("Let me search") are kept.               *)
(***************************************************************************)
ResetGreeting == "No problem! Let's start fresh. What city will you be traveling from?"
FailoverGreeting == "Let's start planning your trip! What city will you be traveling from?"
NoNextNodeMessage == "Something went wrong. Please type 'start over' to begin again."
SearchStartingMessage == "Starting your travel search..."
PersonalizedQuestion == "(question rephrased by the reasoning gateway)"

QuestionOf ==
    [ask_origin |-> "Hello! I'm your Travel Planning Assistant! What city will you be traveling from?",
     ask_destination |-> "Great! You'll be traveling from ... Now, which city are you planning to visit?",
     ask_start_date |-> "Wonderful! ... sounds exciting! When would you like to start your trip?",
     ask_end_date |-> "Got it! Starting ... And when will you be returning?",
     ask_travelers |-> "Excellent! So you'll be traveling from ... to ... How many people will be traveling?",
     ask_budget |-> "Got it! ... traveling. What's your budget for this trip?",
     ask_purpose |-> "Perfect! I've noted your budget of ... Is this trip for business or vacation?",
     ask_planning_type |-> "Great! This is a ... trip. What would you like help planning?"]

\* A rejection that also sends the conversation back to the start.
RejectionRestarting(error, message) ==
    [validationError |-> Some(error), responseMessage |-> Some(message),
     currentNode |-> START]

Rejection(error, message) ==
    [validationError |-> Some(error), responseMessage |-> Some(message)]

(***************************************************************************)
(* The ask nodes.  Each is a function from the state (and, for the nodes   *)
(* that await the reasoning gateway, that call's outcome: None when the    *)
(* call throws, Some(text) when it returns text) to the update object.     *)
(***************************************************************************)
askOriginNode(s) ==
    IF NoInput(s) THEN [responseMessage |-> Some(QuestionOf.ask_origin)]
    ELSE LET input == trim(Val(s.lastUserInput)) IN
         IF Len(input) < 2
         THEN Rejection("Please provide a valid city name for your origin.",
                        "I need a city name with at least 2 characters. What city will you be traveling from?")
         ELSE IF ~looksLikeCityName(input)
         THEN Rejection("Please provide a valid city name (letters only).",
                        "That doesn't look like a city name. Please provide the city you'll be traveling from.")
         ELSE [originCity |-> Some(input),
               validationError |-> None,
               currentNode |-> OrElse(getNextNode(s, "ask_origin"), "ask_destination")]

askDestinationNode(s) ==
    IF NoInput(s)
    THEN [responseMessage |-> Some(QuestionOf.ask_destination), validationError |-> None]
    ELSE LET input == trim(Val(s.lastUserInput)) IN
         IF Len(input) < 2
         THEN Rejection("Please provide a valid destination city name.",
                        "I need a city name with at least 2 characters. Where are you planning to visit?")
         ELSE IF ~looksLikeCityName(input)
         THEN Rejection("Please provide a valid city name (letters only).",
                        "That doesn't look like a city name. Please provide your destination city.")
         ELSE IF IsSome(s.originCity) /\ toLowerCase(input) = toLowerCase(Val(s.originCity))
         THEN Rejection("Destination should be different from origin.",
                        "You're already in ...! Where would you like to travel to from there?")
         ELSE [destinationCity |-> Some(input),
               validationError |-> None,
               currentNode |-> OrElse(getNextNode(s, "ask_destination"), "ask_start_date")]

StartDateInPast ==
    Rejection("The start date should be in the future.",
              "It looks like that date is in the past! When in the future would you like to start your trip?")

\* The native-parsing input: the year is appended when the text has no
\* four digits in a row.
withCurrentYear(input) ==
    IF hasFourDigits(input) THEN input ELSE input \o ", 2026"

askStartDateFallback(s, input) ==
    Bind(newDate(withCurrentYear(input)), LAMBDA parsedDate :
    IF ~IsSome(parsedDate)
    THEN Rejection("That doesn't seem like a valid date. Please provide a proper date.",
                   "That doesn't seem like a valid date. Could you provide your departure date in a format like MM/DD/YYYY or Jan 15, 2026?")
    ELSE IF Val(parsedDate) < Today THEN StartDateInPast
    ELSE [startDate |-> Some(input),
          validationError |-> None,
          currentNode |-> OrElse(getNextNode(s, "ask_start_date"), "ask_end_date")])

askStartDateNode(s, llm) ==
    IF NoInput(s) THEN [responseMessage |-> Some(QuestionOf.ask_start_date)]
    ELSE LET input == trim(Val(s.lastUserInput))
             parsedDateStr == IF IsSome(llm) THEN trim(Val(llm)) ELSE ""
         IN  Bind(IF IsSome(llm) THEN newDate(parsedDateStr) ELSE None, LAMBDA parsedDate :
             IF IsSome(parsedDate)
             THEN IF Val(parsedDate) < Today THEN StartDateInPast
                  ELSE [startDate |-> Some(parsedDateStr),
                        validationError |-> None,
                        currentNode |-> OrElse(getNextNode(s, "ask_start_date"), "ask_end_date")]
             ELSE askStartDateFallback(s, input))

\* Math.ceil and Math.floor of (end - start) / one day: whole days here.
DaysBetween(startDay, endDay) == endDay - startDay

askEndDateFallback(s, input) ==
    Bind(newDate(withCurrentYear(input)), LAMBDA endDate :
    Bind(IF IsSome(s.startDate) THEN newDate(Val(s.startDate)) ELSE None, LAMBDA startDate :
    IF ~IsSome(endDate)
    THEN Rejection("That doesn't seem like a valid date. Please provide a proper return date.",
                   "That doesn't seem like a valid date. Could you provide your return date in a format like MM/DD/YYYY or Jan 20, 2026?")
    ELSE IF IsSome(startDate) /\ Val(endDate) <= Val(startDate)
    THEN Rejection("The return date must be after the start date.",
                   "Your return date should be after ... When would you like to return from your trip?")
    ELSE IF IsSome(startDate) /\ DaysBetween(Val(startDate), Val(endDate)) > 365
    THEN Rejection("That's quite a long trip! Please confirm your return date.",
                   "Wow, that's over a year! If that's correct, please re-enter the same date, or provide a different return date.")
    ELSE [endDate |-> Some(input),
          validationError |-> None,
          currentNode |-> OrElse(getNextNode(s, "ask_end_date"), "ask_travelers")]))

askEndDateNode(s, llm) ==
    IF NoInput(s) THEN [responseMessage |-> Some(QuestionOf.ask_end_date)]
    ELSE LET input == trim(Val(s.lastUserInput))
             parsedDateStr == IF IsSome(llm) THEN trim(Val(llm)) ELSE ""
         IN  Bind(IF IsSome(llm) THEN newDate(parsedDateStr) ELSE None, LAMBDA endDate :
             Bind(IF Truthy(s.startDate) THEN newDate(Val(s.startDate)) ELSE None,
                  LAMBDA startDateParsed :
             IF IsSome(endDate)
             THEN IF Truthy(s.startDate) /\ IsSome(startDateParsed)
                        /\ Val(endDate) <= Val(startDateParsed)
                  THEN Rejection("End date should be after the start date.",
                                 "Your return date should be after ... When will you be coming back?")
                  ELSE IF Truthy(s.startDate) /\ IsSome(startDateParsed)
                        /\ DaysBetween(Val(startDateParsed), Val(endDate)) > 365
                  THEN Rejection("That trip duration seems unusually long (over a year).",
                                 "A trip of ... days seems quite long! Could you confirm your return date?")
                  ELSE [endDate |-> Some(parsedDateStr),
                        validationError |-> None,
                        currentNode |-> OrElse(getNextNode(s, "ask_end_date"), "ask_travelers")]
             ELSE askEndDateFallback(s, input)))

numberWords ==
    [one |-> 1, two |-> 2, three |-> 3, four |-> 4, five |-> 5,
     six |-> 6, seven |-> 7, eight |-> 8, nine |-> 9, ten |-> 10]

\* The travelers node without the upper limit on the group.
askTravelersNodeUncapped(s) ==
    IF NoInput(s) THEN [responseMessage |-> Some(QuestionOf.ask_travelers)]
    ELSE LET input == trim(Val(s.lastUserInput)) IN
         Bind(IF toLowerCase(input) \in DOMAIN numberWords
              THEN Some(numberWords[toLowerCase(input)])
              ELSE parseInt(input), LAMBDA travelers :
             IF ~IsSome(travelers) \/ Val(travelers) < 1
             THEN Rejection("Please provide a valid number of travelers.",
                            "I need a valid number! How many people will be traveling?")
             ELSE [travelers |-> travelers,
                   validationError |-> None,
                   currentNode |-> OrElse(getNextNode(s, "ask_travelers"), "ask_budget")])

askTravelersNode(s) ==
    IF NoInput(s) THEN [responseMessage |-> Some(QuestionOf.ask_travelers)]
    ELSE LET input == trim(Val(s.lastUserInput)) IN
         Bind(IF toLowerCase(input) \in DOMAIN numberWords
              THEN Some(numberWords[toLowerCase(input)])
              ELSE parseInt(input), LAMBDA travelers :
             IF ~IsSome(travelers) \/ Val(travelers) < 1
             THEN Rejection("Please provide a valid number of travelers.",
                            "I need a valid number! How many people will be traveling?")
             ELSE IF Val(travelers) > 50
             THEN Rejection("That's quite a large group!",
                            "Wow, ... people! That's a big group! If yes, please re-enter the number.")
             ELSE [travelers |-> travelers,
                   validationError |-> None,
                   currentNode |-> OrElse(getNextNode(s, "ask_travelers"), "ask_budget")])

\* /no\s*limit/: "no", any white space, "limit".
matchesNoLimit(s) ==
    \E i \in 1..(Len(s) - 1) :
        /\ Sub(s, i, i + 1) = "no"
        /\ LET j == SkipSpaces(s, i + 2) IN Sub(s, j, j + 4) = "limit"

\* budgetPatterns.some(pattern => pattern.test(input)).  The first pattern,
\* /\$?\d+[\d,]*(\s*-\s*\$?\d+[\d,]*)?/, is not anchored and all but \d+ is
\* optional: it matches exactly the texts that hold a digit, and so every
\* text the second pattern (an amount and a currency word) matches.
isValidBudget(input) ==
    \/ HasDigit(input)
    \/ includes(input, "flexible") \/ matchesNoLimit(input) \/ includes(input, "unlimited")

\* parseInt(numbers[0].replace(/,/g, '')) of input.match(/\d+[\d,]*/g);
\* None when the text holds no number.
askedAmount(input) ==
    LET numbers == matchAmountText(input)
    IN  IF IsSome(numbers) THEN parseInt(removeCommas(Val(numbers))) ELSE None

LowBudgetThreshold == 100

askBudgetNode(s) ==
    IF NoInput(s) THEN [responseMessage |-> Some(QuestionOf.ask_budget)]
    ELSE Bind(toLowerCase(trim(Val(s.lastUserInput))), LAMBDA input :
         IF Len(input) < 1
         THEN Rejection("Please provide your budget for the trip.",
                        "I need to know your budget to help plan better! What's your budget for this trip?")
         ELSE IF ~isValidBudget(input)
         THEN Rejection("Please provide a valid budget amount.",
                        "I need a valid budget amount. You can say something like: $2000, 1500-2000, flexible, or no limit.")
         ELSE IF IsSome(askedAmount(input)) /\ Val(askedAmount(input)) < LowBudgetThreshold
         THEN Rejection("That budget seems quite low. Are you sure?",
                        "Just checking - did you mean $...? Could you confirm or provide your actual budget?")
         ELSE [budget |-> Some(trim(Val(s.lastUserInput))),
               validationError |-> None,
               currentNode |-> OrElse(getNextNode(s, "ask_budget"), "ask_purpose")])

PurposeWords == {"business", "vacation", "leisure", "holiday", "work", "pleasure"}

askPurposeNode(s) ==
    IF NoInput(s) THEN [responseMessage |-> Some(QuestionOf.ask_purpose)]
    ELSE Bind(toLowerCase(Val(s.lastUserInput)), LAMBDA input :
         IF \A w \in PurposeWords : ~includes(input, w)
         THEN Rejection("Please specify if this is a 'business' or 'vacation' trip.",
                        "Please specify if this is a 'business' or 'vacation' trip.")
         ELSE [purpose |-> Some(IF includes(input, "business") \/ includes(input, "work")
                                THEN "business" ELSE "vacation"),
               validationError |-> None,
               currentNode |-> OrElse(getNextNode(s, "ask_purpose"), "ask_planning_type")])

AllThree == <<"transportation", "accommodation", "activities">>

LetMeSearchMessage ==
    "Perfect! I'll help you plan ... Let me search for the best options for your trip from ... to ..."

\* The keyword matching of the planning-type answer (the gateway failed).
keywordPlanningTypes(input) ==
    LET t == IF includes(input, "transportation") \/ includes(input, "transport")
                    \/ includes(input, "flight")
             THEN <<"transportation">> ELSE <<>>
        a == IF includes(input, "accommodation") \/ includes(input, "hotel")
                    \/ includes(input, "stay") \/ includes(input, "lodging")
             THEN <<"accommodation">> ELSE <<>>
        c == IF includes(input, "activit") \/ includes(input, "sightseeing")
                    \/ includes(input, "things to do")
             THEN <<"activities">> ELSE <<>>
        all == IF includes(input, "all") \/ includes(input, "everything")
                    \/ includes(input, "three") \/ includes(input, "both")
               THEN AllThree ELSE <<>>
        found == t \o a \o c \o all
    IN  IF Len(found) = 0 THEN AllThree ELSE found

keywordInterests(input) ==
    LET text == (IF includes(input, "adventure") THEN "adventure, " ELSE "")
             \o (IF includes(input, "culture") \/ includes(input, "history") THEN "culture, " ELSE "")
             \o (IF includes(input, "food") \/ includes(input, "dining") THEN "food, " ELSE "")
             \o (IF includes(input, "nature") \/ includes(input, "outdoor") THEN "nature, " ELSE "")
             \o (IF includes(input, "shopping") THEN "shopping, " ELSE "")
             \o (IF includes(input, "relax") \/ includes(input, "spa") THEN "relaxation, " ELSE "")
    IN  Sub(text, 1, Len(text) - 2)

planningAccepted(s, planningTypes, interests) ==
    [planningType |-> Some(planningTypes),
     interests |-> Some(interests),
     validationError |-> None,
     currentNode |-> OrElse(getNextNode(s, "ask_planning_type"), "search_options"),
     transportationType |-> IF Truthy(s.transportationType) THEN s.transportationType
                            ELSE Some("flights"),
     responseMessage |-> Some(LetMeSearchMessage)]

\* The planning-type node that stores the gateway's list as it is, the empty
\* list too.
askPlanningTypeNodeTrustingGateway(s, llm) ==
    IF NoInput(s) THEN [responseMessage |-> Some(QuestionOf.ask_planning_type)]
    ELSE LET input == toLowerCase(Val(s.lastUserInput)) IN
         IF Len(trim(input)) < 2
         THEN Rejection("Please tell me what you'd like help planning (transportation, accommodation, activities, or all).",
                        "Please tell me what you'd like help planning (transportation, accommodation, activities, or all).")
         ELSE IF IsSome(llm)
         THEN planningAccepted(s, Val(llm).planningTypes, Val(llm).interests)
         ELSE planningAccepted(s, keywordPlanningTypes(input), keywordInterests(input))

\* llm: None when the gateway throws or its text holds no parsable JSON
\* object; otherwise Some of the parsed object's two fields, planningTypes
\* (a sequence, <<>> when the key is missing) and interests.
askPlanningTypeNode(s, llm) ==
    IF NoInput(s) THEN [responseMessage |-> Some(QuestionOf.ask_planning_type)]
    ELSE LET input == toLowerCase(Val(s.lastUserInput)) IN
         IF Len(trim(input)) < 2
         THEN Rejection("Please tell me what you'd like help planning (transportation, accommodation, activities, or all).",
                        "Please tell me what you'd like help planning (transportation, accommodation, activities, or all).")
         ELSE IF IsSome(llm)
         THEN planningAccepted(s,
                  IF Len(Val(llm).planningTypes) = 0 THEN AllThree ELSE Val(llm).planningTypes,
                  Val(llm).interests)
         ELSE planningAccepted(s, keywordPlanningTypes(input), keywordInterests(input))

(***************************************************************************)
(* Budget allocation.                                                      *)
(***************************************************************************)
\* Math.round(total * pct / 100) for a whole number total.
RoundPct(total, pct) == (total * pct + 50) \div 100

DefaultTotalBudget == 1000

\* budgetMatch ? parseInt(budgetMatch[0]) : 1000, of state.budget?.match(/\d+/)
totalBudgetOf(s) ==
    IF IsSome(s.budget) /\ IsSome(matchDigits(Val(s.budget)))
    THEN Val(parseInt(Val(matchDigits(Val(s.budget)))))
    ELSE DefaultTotalBudget

FlightsSharePct == 40
BusesSharePct == 12
AccommodationSharePct == 30
FoodSharePct == 20
ActivitiesSharePct == 8
ContingencySharePct == 2

\* A fallback that takes the flights share whatever the transportation type.
fallbackAllocationOfFlights(s) ==
    LET totalBudget == totalBudgetOf(s)
    IN  [transportation |-> RoundPct(totalBudget, FlightsSharePct),
         accommodation |-> RoundPct(totalBudget, AccommodationSharePct),
         food |-> RoundPct(totalBudget, FoodSharePct),
         activities |-> RoundPct(totalBudget, ActivitiesSharePct),
         contingency |-> RoundPct(totalBudget, ContingencySharePct)]

fallbackAllocation(s) ==
    LET totalBudget == totalBudgetOf(s)
        isFlights == s.transportationType = Some("flights")
    IN  [transportation |-> RoundPct(totalBudget, IF isFlights THEN FlightsSharePct ELSE BusesSharePct),
         accommodation |-> RoundPct(totalBudget, AccommodationSharePct),
         food |-> RoundPct(totalBudget, FoodSharePct),
         activities |-> RoundPct(totalBudget, ActivitiesSharePct),
         contingency |-> RoundPct(totalBudget, ContingencySharePct)]

\* The allocation that hands the gateway's failure on: nothing is computed
\* in its place.
allocateBudgetWithoutFallback(s, llm) ==
    IF IsSome(llm) THEN Val(llm) ELSE None

\* llm: None when the gateway throws or returns no parsable JSON object,
\* Some(allocation) when it returns one.  A returned object whose sum is off
\* by more than 10 is only logged (console.warn) and returned all the same.
allocateBudget(s, llm) ==
    IF IsSome(llm) THEN Val(llm) ELSE fallbackAllocation(s)

AllocationSum(a) ==
    a.transportation + a.accommodation + a.food + a.activities + a.contingency

(***************************************************************************)
(* Validation of the search results.  A category's results are a sequence  *)
(* of texts, each the JSON text of one result (title, content, url).       *)
(***************************************************************************)
\* Math.max(1, Math.ceil((end - start) / one day)); 1 when a date is missing,
\* NaN (None) when one does not parse.
calculateNights(startDate, endDate) ==
    IF ~Truthy(startDate) \/ ~Truthy(endDate) THEN Some(1)
    ELSE LET start == newDate(Val(startDate))
             end == newDate(Val(endDate))
         IN  IF IsSome(start) /\ IsSome(end)
             THEN Some(IF Val(end) - Val(start) > 1 THEN Val(end) - Val(start) ELSE 1)
             ELSE None

\* The numbers /\$\s*(\d+)/g captures in text.
dollarPrices(text) ==
    {DecimalValue(Sub(text, SkipSpaces(text, i + 1), DigitRunEnd(text, SkipSpaces(text, i + 1)))) :
        i \in {k \in 1..Len(text) : Ch(text, k) = "$"
                    /\ DigitRunEnd(text, SkipSpaces(text, k + 1)) >= SkipSpaces(text, k + 1)}}

\* The numbers /(\d+)\s*(?:USD|dollars?)/gi captures in text: every maximal
\* run of digits that white space and a currency word follow.
currencyWordPrices(text) ==
    {DecimalValue(Sub(text, i, DigitRunEnd(text, i))) :
        i \in {k \in 1..Len(text) :
                  /\ IsDigit(Ch(text, k))
                  /\ (k = 1 \/ ~IsDigit(Ch(text, k - 1)))
                  /\ LET w == SkipSpaces(text, DigitRunEnd(text, k) + 1)
                     IN  \/ toLowerCase(Sub(text, w, w + 2)) = "usd"
                         \/ toLowerCase(Sub(text, w, w + 5)) = "dollar"}}

\* The end of the run of colons and white space that starts at position i.
RECURSIVE ColonSpaceRunEnd(_, _)
ColonSpaceRunEnd(s, i) ==
    IF i <= Len(s) /\ (IsSpace(Ch(s, i)) \/ Ch(s, i) = ":")
    THEN ColonSpaceRunEnd(s, i + 1) ELSE i - 1

\* Where the digits of /price[:\s]+\$?\s*(\d+)/gi begin, for "price" at k.
PriceDigitsFrom(text, k) ==
    LET a == ColonSpaceRunEnd(text, k + 5) + 1
        b == IF Ch(text, a) = "$" THEN a + 1 ELSE a
    IN  SkipSpaces(text, b)

labelledPrices(text) ==
    {DecimalValue(Sub(text, PriceDigitsFrom(text, i), DigitRunEnd(text, PriceDigitsFrom(text, i)))) :
        i \in {k \in 1..(Len(text) - 4) :
                  /\ toLowerCase(Sub(text, k, k + 4)) = "price"
                  /\ ColonSpaceRunEnd(text, k + 5) >= k + 5
                  /\ DigitRunEnd(text, PriceDigitsFrom(text, k)) >= PriceDigitsFrom(text, k)}}

MinReasonablePrice == 10
MaxReasonablePrice == 10000

RECURSIVE JoinTexts(_)
JoinTexts(results) ==
    IF Len(results) = 0 THEN ""
    ELSE Head(results) \o (IF Len(results) > 1 THEN "," ELSE "") \o JoinTexts(Tail(results))

\* allPrices of validateSearchResults: every captured price within the range.
allPrices(transportText) ==
    {p \in dollarPrices(transportText) \cup currencyWordPrices(transportText)
              \cup labelledPrices(transportText) :
        p > MinReasonablePrice /\ p < MaxReasonablePrice}

\* The numbers of accomText.match(/\$\d+/g).
accommodationPrices(accomText) ==
    {DecimalValue(Sub(accomText, i + 1, DigitRunEnd(accomText, i + 1))) :
        i \in {k \in 1..Len(accomText) : Ch(accomText, k) = "$"
                    /\ DigitRunEnd(accomText, k + 1) >= k + 1}}

Min(S) == CHOOSE x \in S : \A y \in S : x <= y

\* state.travelers || 1
travelersOrOne(s) ==
    IF IsSome(s.travelers) /\ Val(s.travelers) # 0 THEN Val(s.travelers) ELSE 1

FlightsThresholdPct == 40
AccommodationThresholdPct == 50
ShortTripDays == 3

FlightsIssue == "FLIGHTS_BUDGET_EXCEEDED: Flight costs ... exceed 40% of your ... budget."
TotalIssue == "TOTAL_BUDGET_EXCEEDED: Total trip cost ... exceeds your budget ..."
AccommodationIssue == "Accommodation costs ... may exceed 50% of your budget"
ScheduleIssue == "Some activities found require more time than your ...-day trip allows"

NonEmptyResults(r) == IsSome(r) /\ Len(Val(r)) > 0

\* budgetMatch ? parseInt(budgetMatch[0]) : null
budgetAmountOf(s) ==
    IF IsSome(s.budget) /\ IsSome(matchDigits(Val(s.budget)))
    THEN parseInt(Val(matchDigits(Val(s.budget))))
    ELSE None

\* The flights check of the deterministic validation: TRUE when the issue is
\* pushed (and searchResults.flightsBudgetExceeded is set on the update).
flightsExceeded(s, searchResults) ==
    /\ NonEmptyResults(searchResults.transportationResults)
    /\ IsSome(budgetAmountOf(s)) /\ Val(budgetAmountOf(s)) # 0
    /\ s.transportationType = Some("flights")
    /\ \E prices \in {allPrices(JoinTexts(Val(searchResults.transportationResults)))} :
           /\ prices # {}
           /\ 100 * (Min(prices) * travelersOrOne(s))
                > FlightsThresholdPct * Val(budgetAmountOf(s))

accommodationExceeded(s, searchResults) ==
    /\ NonEmptyResults(searchResults.accommodationResults)
    /\ IsSome(budgetAmountOf(s)) /\ Val(budgetAmountOf(s)) # 0
    /\ \E prices \in {accommodationPrices(
                        toLowerCase(JoinTexts(Val(searchResults.accommodationResults))))},
          nights \in {calculateNights(s.startDate, s.endDate)} :
           /\ prices # {}
           /\ IsSome(nights)
           /\ 100 * (Min(prices) * Val(nights))
                > AccommodationThresholdPct * Val(budgetAmountOf(s))

scheduleConflict(s, searchResults) ==
    /\ Truthy(s.startDate) /\ Truthy(s.endDate)
    /\ IsSome(newDate(Val(s.startDate))) /\ IsSome(newDate(Val(s.endDate)))
    /\ NonEmptyResults(searchResults.activitiesResults)
    /\ Val(newDate(Val(s.endDate))) - Val(newDate(Val(s.startDate))) < ShortTripDays
    /\ LET activitiesText == toLowerCase(JoinTexts(Val(searchResults.activitiesResults)))
       IN  includes(activitiesText, "multi-day") \/ includes(activitiesText, "week-long")

\* The result of the deterministic validation, and the flag it writes into
\* the update object it was handed (searchResults.flightsBudgetExceeded).
validateSearchResults(s, searchResults) ==
    Bind(flightsExceeded(s, searchResults), LAMBDA flights :
    Bind((IF flights THEN <<FlightsIssue>> ELSE <<>>)
         \o (IF accommodationExceeded(s, searchResults) THEN <<AccommodationIssue>> ELSE <<>>),
         LAMBDA budgetIssues :
    Bind(IF scheduleConflict(s, searchResults) THEN <<ScheduleIssue>> ELSE <<>>,
         LAMBDA scheduleIssues :
        [budgetIssues |-> budgetIssues,
         scheduleIssues |-> scheduleIssues,
         allIssues |-> budgetIssues \o scheduleIssues,
         flightsBudgetExceeded |-> FALSE,
         wroteFlightsFlag |-> flights])))

\* The validation that trusts the answer's totalBudgetExceeded flag alone and
\* never compares the estimate with the budget.
validateWithLLMFlagOnly(s, searchResults, llm) ==
    IF IsSome(llm)
    THEN LET parsed == Val(llm)
             budgetIssues == (IF parsed.totalBudgetExceeded THEN <<TotalIssue>> ELSE <<>>)
                                \o parsed.budgetIssues
         IN  [budgetIssues |-> budgetIssues,
              scheduleIssues |-> <<>>,
              allIssues |-> budgetIssues,
              flightsBudgetExceeded |-> parsed.flightsBudgetExceeded,
              wroteFlightsFlag |-> FALSE]
    ELSE validateSearchResults(s, searchResults)

\* llm: None when the gateway throws or returns no parsable JSON object;
\* otherwise Some(parsed) with the fields budgetIssues (a sequence of texts),
\* totalBudgetExceeded, flightsBudgetExceeded (booleans) and
\* totalEstimatedCost (None when it is missing or no number).
validateWithLLM(s, searchResults, llm) ==
    IF IsSome(llm)
    THEN LET parsed == Val(llm)
             totalBudget == totalBudgetOf(s)
             total == IF parsed.totalBudgetExceeded
                         \/ (IsSome(parsed.totalEstimatedCost)
                               /\ Val(parsed.totalEstimatedCost) > totalBudget)
                      THEN <<TotalIssue>> ELSE <<>>
         IN  Bind(total \o parsed.budgetIssues, LAMBDA withTotal :
             Bind(IF /\ parsed.flightsBudgetExceeded
                     /\ s.transportationType = Some("flights")
                     /\ ~\E i \in 1..Len(withTotal) :
                            includes(withTotal[i], "FLIGHTS_BUDGET_EXCEEDED")
                  THEN Append(withTotal, FlightsIssue)
                  ELSE withTotal, LAMBDA budgetIssues :
             [budgetIssues |-> budgetIssues,
              scheduleIssues |-> <<>>,
              allIssues |-> budgetIssues,
              flightsBudgetExceeded |-> parsed.flightsBudgetExceeded,
              wroteFlightsFlag |-> FALSE]))
    ELSE validateSearchResults(s, searchResults)

(***************************************************************************)
(* The search node.  o is the outcome of every gateway call the node may   *)
(* make: o.alloc and o.val (the reasoning gateway, as above) and o.trans,  *)
(* o.accom, o.act (the search gateway: None when the call throws, Some of  *)
(* the result texts when it returns).                                      *)
(***************************************************************************)
NoUpdate == [k \in {} |-> None]

(***************************************************************************)
(* The queries of the search gateway (TavilySearchPrompts).  A parameter   *)
(* that is absent is interpolated as "undefined".                          *)
(***************************************************************************)
\* String(n) of a whole number.
RECURSIVE numberText(_)
numberText(n) ==
    IF n < 0 THEN "-" \o numberText(0 - n)
    ELSE IF n < 10 THEN Ch(Digits, n + 1)
    ELSE numberText(n \div 10) \o Ch(Digits, (n % 10) + 1)

\* `${v}` of an optional text.
textOrUndefined(v) == IF IsSome(v) THEN Val(v) ELSE "undefined"

\* `${travelers}`
travelersText(v) == IF IsSome(v) THEN numberText(Val(v)) ELSE "undefined"

\* Math.round(a / b) for a >= 0 and b > 0.
roundedQuotient(a, b) == (2 * a + b) \div (2 * b)

\* TavilySearchPrompts.calculateNights: the whole days from start to end, 1
\* when a date is absent or unreadable or the difference is not positive.
queryNights(startDate, endDate) ==
    IF ~Truthy(startDate) \/ ~Truthy(endDate) THEN 1
    ELSE Bind(<<newDate(Val(startDate)), newDate(Val(endDate))>>, LAMBDA d :
         IF IsSome(d[1]) /\ IsSome(d[2]) /\ Val(d[2]) - Val(d[1]) > 0
         THEN Val(d[2]) - Val(d[1]) ELSE 1)

\* TavilySearchPrompts.calculateDays: the days from start to end, both
\* counted.
queryDays(startDate, endDate) ==
    IF ~Truthy(startDate) \/ ~Truthy(endDate) THEN 1
    ELSE Bind(<<newDate(Val(startDate)), newDate(Val(endDate))>>, LAMBDA d :
         IF IsSome(d[1]) /\ IsSome(d[2]) /\ Val(d[2]) - Val(d[1]) + 1 > 0
         THEN Val(d[2]) - Val(d[1]) + 1 ELSE 1)

\* extractBudgetAmount: parseInt of the first run of digits; 0 stands for
\* the absent (and the zero) amount, both falsy.
extractBudgetAmount(budget) ==
    IF Truthy(budget) /\ IsSome(matchDigits(Val(budget)))
    THEN DecimalValue(Val(matchDigits(Val(budget)))) ELSE 0

getTransportationQuery(p, transportType) ==
    LET allocatedBudget == IF p.budgetAllocation.transportation # 0
                           THEN p.budgetAllocation.transportation ELSE 200
        budgetPerPerson == roundedQuotient(allocatedBudget, travelersOrOne(p))
    IN  IF transportType = "buses"
        THEN "bus from " \o textOrUndefined(p.originCity) \o " to "
                 \o textOrUndefined(p.destinationCity) \o " "
                 \o textOrUndefined(p.startDate) \o " to " \o textOrUndefined(p.endDate)
                 \o " " \o travelersText(p.travelers) \o " people max $"
                 \o numberText(budgetPerPerson) \o "/person prices schedules"
        ELSE "flights " \o textOrUndefined(p.originCity) \o " to "
                 \o textOrUndefined(p.destinationCity) \o " "
                 \o textOrUndefined(p.startDate) \o " to " \o textOrUndefined(p.endDate)
                 \o " " \o travelersText(p.travelers) \o " passengers budget $"
                 \o numberText(budgetPerPerson) \o "/person prices times airlines"

getAccommodationQuery(p) ==
    LET numNights == queryNights(p.startDate, p.endDate)
        allocatedBudget == p.budgetAllocation.accommodation
        budgetPerNight ==
            IF allocatedBudget # 0 THEN numberText(roundedQuotient(allocatedBudget, numNights))
            ELSE IF extractBudgetAmount(p.budget) # 0
            THEN numberText(roundedQuotient(extractBudgetAmount(p.budget),
                                            numNights * travelersOrOne(p)))
            ELSE "variable"
    IN  "hotels " \o textOrUndefined(p.destinationCity) \o " "
            \o textOrUndefined(p.startDate) \o " to " \o textOrUndefined(p.endDate)
            \o " " \o travelersText(p.travelers) \o " people "
            \o numberText(numNights) \o " nights budget $" \o budgetPerNight
            \o "/night prices location"

getActivitiesQuery(p) ==
    LET numDays == queryDays(p.startDate, p.endDate)
        allocatedBudget == p.budgetAllocation.activities
        budgetPerDay ==
            IF allocatedBudget # 0 THEN numberText(roundedQuotient(allocatedBudget, numDays))
            ELSE IF extractBudgetAmount(p.budget) # 0
            THEN numberText(roundedQuotient(3 * extractBudgetAmount(p.budget),
                                            10 * numDays * travelersOrOne(p)))
            ELSE "variable"
    IN  "things to do " \o textOrUndefined(p.destinationCity) \o " "
            \o textOrUndefined(p.startDate) \o " to " \o textOrUndefined(p.endDate)
            \o " " \o travelersText(p.travelers) \o " people "
            \o numberText(numDays) \o " days budget $" \o budgetPerDay
            \o "/day attractions tours prices"

Selected(s, category) ==
    IsSome(s.planningType)
        /\ \E i \in 1..Len(Val(s.planningType)) : Val(s.planningType)[i] = category

\* A guard that looks at the transportation results alone.
notSearchedYetForTransport(s) ==
    /\ IsSome(s.planningType) /\ Len(Val(s.planningType)) > 0
    /\ ~IsSome(s.transportationResults)

\* The guard of the search node: a planning type is set and no category has
\* results yet (an empty list of results is a result).
notSearchedYet(s) ==
    /\ IsSome(s.planningType) /\ Len(Val(s.planningType)) > 0
    /\ ~IsSome(s.transportationResults)
    /\ ~IsSome(s.accommodationResults)
    /\ ~IsSome(s.activitiesResults)

\* A search that hands every validation to the handler.
nodeAfterValidationAlwaysHandler(llmValidation) == "handle_validation_issues"

\* The node after a search that completed: the handler when the validation
\* reported an issue.
nodeAfterValidation(llmValidation) ==
    IF Len(llmValidation.scheduleIssues) > 0 \/ Len(llmValidation.budgetIssues) > 0
    THEN "handle_validation_issues" ELSE "generate_plan"

SearchFailedIssue ==
    "Failed to fetch search results: ... Generating plan with general recommendations."

\* The search node that keeps the results of the searches that returned when
\* another search failed.
searchOptionsNodeKeepingPartial(s, o) ==
    IF notSearchedYet(s)
    THEN LET budgetAllocation == allocateBudget(s, o.alloc)
             failed == \/ Selected(s, "transportation") /\ ~IsSome(o.trans)
                       \/ Selected(s, "accommodation") /\ ~IsSome(o.accom)
                       \/ Selected(s, "activities") /\ ~IsSome(o.act)
             found == [transportationResults |->
                           IF Selected(s, "transportation") THEN o.trans ELSE None,
                       accommodationResults |->
                           IF Selected(s, "accommodation") THEN o.accom ELSE None,
                       activitiesResults |->
                           IF Selected(s, "activities") THEN o.act ELSE None]
         IN  IF failed
             THEN [searchValidationIssues |-> Some(<<SearchFailedIssue>>),
                   currentNode |-> "generate_plan",
                   budgetAllocation |-> None,
                   transportationResults |-> found.transportationResults,
                   accommodationResults |-> found.accommodationResults,
                   activitiesResults |-> found.activitiesResults]
             ELSE Bind(validateWithLLM(s, found, o.val), LAMBDA llmValidation :
                  [searchRetryCount |->
                       Some((IF IsSome(s.searchRetryCount) THEN Val(s.searchRetryCount) ELSE 0) + 1),
                   transportationType |->
                       IF Truthy(s.transportationType) THEN s.transportationType
                       ELSE Some("flights"),
                   budgetAllocation |-> Some(budgetAllocation),
                   budgetIssues |-> Some(llmValidation.budgetIssues),
                   scheduleIssues |-> Some(llmValidation.scheduleIssues),
                   searchValidationIssues |-> Some(llmValidation.allIssues),
                   currentNode |-> nodeAfterValidation(llmValidation)]
                  @@ (IF Selected(s, "transportation")
                      THEN [transportationResults |-> found.transportationResults]
                      ELSE NoUpdate)
                  @@ (IF Selected(s, "accommodation")
                      THEN [accommodationResults |-> found.accommodationResults]
                      ELSE NoUpdate)
                  @@ (IF Selected(s, "activities")
                      THEN [activitiesResults |-> found.activitiesResults]
                      ELSE NoUpdate)
                  @@ (IF llmValidation.wroteFlightsFlag \/ llmValidation.flightsBudgetExceeded
                      THEN [flightsBudgetExceeded |-> Some(TRUE)]
                      ELSE NoUpdate))
    ELSE [currentNode |-> "generate_plan"]

searchOptionsNode(s, o) ==
    IF notSearchedYet(s)
    THEN LET budgetAllocation == allocateBudget(s, o.alloc)
             failed == \/ Selected(s, "transportation") /\ ~IsSome(o.trans)
                       \/ Selected(s, "accommodation") /\ ~IsSome(o.accom)
                       \/ Selected(s, "activities") /\ ~IsSome(o.act)
             found == [transportationResults |->
                           IF Selected(s, "transportation") THEN o.trans ELSE None,
                       accommodationResults |->
                           IF Selected(s, "accommodation") THEN o.accom ELSE None,
                       activitiesResults |->
                           IF Selected(s, "activities") THEN o.act ELSE None]
         IN  IF failed
             THEN [searchValidationIssues |-> Some(<<SearchFailedIssue>>),
                   currentNode |-> "generate_plan",
                   budgetAllocation |-> None]
             ELSE Bind(validateWithLLM(s, found, o.val), LAMBDA llmValidation :
                  [searchRetryCount |->
                       Some((IF IsSome(s.searchRetryCount) THEN Val(s.searchRetryCount) ELSE 0) + 1),
                   transportationType |->
                       IF Truthy(s.transportationType) THEN s.transportationType
                       ELSE Some("flights"),
                   budgetAllocation |-> Some(budgetAllocation),
                   budgetIssues |-> Some(llmValidation.budgetIssues),
                   scheduleIssues |-> Some(llmValidation.scheduleIssues),
                   searchValidationIssues |-> Some(llmValidation.allIssues),
                   currentNode |-> nodeAfterValidation(llmValidation)]
                  @@ (IF Selected(s, "transportation")
                      THEN [transportationResults |-> found.transportationResults]
                      ELSE NoUpdate)
                  @@ (IF Selected(s, "accommodation")
                      THEN [accommodationResults |-> found.accommodationResults]
                      ELSE NoUpdate)
                  @@ (IF Selected(s, "activities")
                      THEN [activitiesResults |-> found.activitiesResults]
                      ELSE NoUpdate)
                  @@ (IF llmValidation.wroteFlightsFlag \/ llmValidation.flightsBudgetExceeded
                      THEN [flightsBudgetExceeded |-> Some(TRUE)]
                      ELSE NoUpdate))
    ELSE [currentNode |-> "generate_plan"]

(***************************************************************************)
(* The validation-handling node.                                           *)
(***************************************************************************)
HasIssueWith(issues, marker) ==
    IsSome(issues) /\ \E i \in 1..Len(Val(issues)) : includes(Val(issues)[i], marker)

IsTrue(flag) == flag = Some(TRUE)

\* The summary of the issues and the menu of options that goes with them.
validationSummary(s) ==
    "I found some issues with the search results:"
    \o (IF IsSome(s.scheduleIssues) /\ Len(Val(s.scheduleIssues)) > 0
        THEN " [schedule issues] (Reply: adjust dates or continue)" ELSE "")
    \o (IF IsSome(s.budgetIssues) /\ Len(Val(s.budgetIssues)) > 0
        THEN IF HasIssueWith(s.budgetIssues, "TOTAL_BUDGET_EXCEEDED")
             THEN " [critical budget issue] 1. Increase budget 2. Search for buses - Reply buses 3. Reduce trip scope - Reply change preferences"
             ELSE IF IsTrue(s.flightsBudgetExceeded) /\ s.transportationType = Some("flights")
             THEN " [budget issues] 1. Search for buses instead (reply: buses or yes) 2. Increase your budget 3. Continue with current options (reply: continue)"
             ELSE " [budget issues] 1. Increase your budget 2. Continue with budget-friendly alternatives (reply: continue) 3. Change your preferences (reply: change preferences)"
        ELSE "")

BusesMessage == "Great! Let me search for bus options instead. This should be more budget-friendly..."
AdjustDatesMessage == "Let's adjust your travel dates. When would you like to start your trip?"
NewBudgetMessage == "Got it! Updated your budget to ... Let me search again for better options..."
ChangePreferencesMessage == "What would you like to change? (transportation, accommodation, or activities)"

\* An adjust-dates branch that asks for the end date alone.
adjustDatesFromEndDate(s) ==
    [responseMessage |-> Some(AdjustDatesMessage),
     currentNode |-> "ask_end_date",
     startDate |-> None,
     endDate |-> None,
     budgetIssues |-> Some(<<>>),
     scheduleIssues |-> Some(<<>>),
     transportationResults |-> None,
     accommodationResults |-> None,
     activitiesResults |-> None,
     validationMessageShown |-> Some(FALSE)]

\* The update of the handler's adjust-dates branch.
adjustDates(s) ==
    [responseMessage |-> Some(AdjustDatesMessage),
     currentNode |-> "ask_start_date",
     startDate |-> None,
     endDate |-> None,
     budgetIssues |-> Some(<<>>),
     scheduleIssues |-> Some(<<>>),
     transportationResults |-> None,
     accommodationResults |-> None,
     activitiesResults |-> None,
     validationMessageShown |-> Some(FALSE)]

\* A handler that takes its summary for shown on every entry.
summaryShownAlways(s) == TRUE

\* state.validationMessageShown
summaryShown(s) == IsTrue(s.validationMessageShown)

handleValidationIssuesNode(s) ==
    IF ~summaryShown(s)
    THEN [responseMessage |-> Some(validationSummary(s)),
          currentNode |-> "handle_validation_issues",
          validationMessageShown |-> Some(TRUE)]
    ELSE IF NoInput(s)
    THEN [currentNode |-> "handle_validation_issues"]
    ELSE Bind(toLowerCase(Val(s.lastUserInput)), LAMBDA input :
         IF /\ includes(input, "bus") \/ includes(input, "yes")
            /\ IsTrue(s.flightsBudgetExceeded) \/ IsTrue(s.totalBudgetExceeded)
         THEN [transportationType |-> Some("buses"),
               responseMessage |-> Some(BusesMessage),
               currentNode |-> "search_options",
               budgetIssues |-> Some(<<>>),
               scheduleIssues |-> Some(<<>>),
               flightsBudgetExceeded |-> Some(FALSE),
               totalBudgetExceeded |-> Some(FALSE),
               accommodationBudgetExceeded |-> Some(FALSE),
               budgetAllocation |-> None,
               transportationResults |-> None,
               validationMessageShown |-> Some(FALSE)]
         ELSE IF includes(input, "continue") \/ includes(input, "ok") \/ includes(input, "fine")
         THEN [budgetIssues |-> Some(<<>>),
               scheduleIssues |-> Some(<<>>),
               currentNode |-> "generate_plan",
               validationMessageShown |-> Some(FALSE)]
         ELSE IF includes(input, "adjust") \/ includes(input, "change dates")
         THEN adjustDates(s)
         ELSE IF HasDigit(input) \/ includes(input, "budget")
         THEN [budget |-> Some(trim(Val(s.lastUserInput))),
               responseMessage |-> Some(NewBudgetMessage),
               currentNode |-> "search_options",
               budgetIssues |-> Some(<<>>),
               scheduleIssues |-> Some(<<>>),
               totalBudgetExceeded |-> Some(FALSE),
               flightsBudgetExceeded |-> Some(FALSE),
               accommodationBudgetExceeded |-> Some(FALSE),
               budgetAllocation |-> None,
               transportationResults |-> None,
               accommodationResults |-> None,
               activitiesResults |-> None,
               validationMessageShown |-> Some(FALSE)]
         ELSE IF includes(input, "change preferences")
         THEN [responseMessage |-> Some(ChangePreferencesMessage),
               currentNode |-> "ask_planning_type",
               planningType |-> None,
               budgetIssues |-> Some(<<>>),
               scheduleIssues |-> Some(<<>>),
               transportationResults |-> None,
               accommodationResults |-> None,
               activitiesResults |-> None,
               validationMessageShown |-> Some(FALSE)]
         ELSE [currentNode |-> "generate_plan"])

(***************************************************************************)
(* The plan-generation node.  words holds the outcome of the reasoning     *)
(* gateway's calls while the plan is built: the ranking of each category's *)
(* results (trans, accom, act) and the day-by-day itinerary (itin), each   *)
(* None when the call throws and Some of the returned text otherwise.      *)
(***************************************************************************)
PlanMessage == "Fantastic! I've compiled your personalized travel plan: ..."
PlanClosing == " Would you like to start planning another trip? Just say start over!"

\* analyzeTransportationOptions and its two siblings: the gateway's text, or
\* the list of the first three results when the call throws.
analyzeOptions(results, llm) ==
    IF IsSome(llm) THEN Val(llm) ELSE "1. [...](...)"

generateDailyItinerary(llm) ==
    IF IsSome(llm) THEN Val(llm)
    ELSE " Suggested Itinerary: - Plan your days based on the recommendations above ..."

buildTravelPlan(s, words) ==
    PlanMessage
    \o (IF Selected(s, "transportation")
        THEN " Transportation: "
             \o (IF NonEmptyResults(s.transportationResults)
                 THEN analyzeOptions(Val(s.transportationResults), words.trans)
                 ELSE "- Book ... tickets from ... to ...")
        ELSE "")
    \o (IF Selected(s, "accommodation")
        THEN " Accommodation: "
             \o (IF NonEmptyResults(s.accommodationResults)
                 THEN analyzeOptions(Val(s.accommodationResults), words.accom)
                 ELSE "- Book accommodations for ... that fit your ... budget")
        ELSE "")
    \o (IF Selected(s, "activities")
        THEN " Activities & Sightseeing: "
             \o (IF NonEmptyResults(s.activitiesResults)
                 THEN analyzeOptions(Val(s.activitiesResults), words.act)
                 ELSE "- Top attractions in ... - Local experiences and hidden gems")
        ELSE "")
    \o (IF \/ NonEmptyResults(s.transportationResults)
           \/ NonEmptyResults(s.accommodationResults)
           \/ NonEmptyResults(s.activitiesResults)
        THEN generateDailyItinerary(words.itin) ELSE "")
    \o PlanClosing

\* The plan node that ends the conversation without storing the plan.
generatePlanNodeWithoutMessage(s, words) ==
    [conversationComplete |-> TRUE,
     currentNode |-> END]

\* The plan node that routes to the terminal sentinel without marking the
\* conversation complete.
generatePlanNodeLeavingOpen(s, words) ==
    [conversationComplete |-> s.conversationComplete,
     responseMessage |-> Some(buildTravelPlan(s, words)),
     currentNode |-> END]

generatePlanNode(s, words) ==
    [conversationComplete |-> TRUE,
     responseMessage |-> Some(buildTravelPlan(s, words)),
     currentNode |-> END]

(***************************************************************************)
(* The engine's public operations.  o holds the outcome of every gateway   *)
(* call one getResponse may await: o.date (the date parsing of the two     *)
(* date nodes), o.plan (the planning-type extraction), o.pers (TRUE when   *)
(* the personalization returns text, FALSE when it throws), the search     *)
(* node's o.alloc, o.trans, o.accom, o.act and o.val, and o.words.  The search client   *)
(* is taken to be configured; without it every search throws, which is     *)
(* the outcome None of the selected categories.                            *)
(***************************************************************************)
\* A reset that stores the greeting it is about to return.
resetKeepingGreeting == [createInitialState EXCEPT !.responseMessage = Some(ResetGreeting)]

\* this.state = createInitialState()
reset == createInitialState

\* currentNode === 'search_options' || responseMessage?.includes('Let me search')
isSearching(s) ==
    \/ s.currentNode = "search_options"
    \/ IsSome(s.responseMessage) /\ includes(Val(s.responseMessage), "Let me search")

\* input.toLowerCase().includes('start over') || ...includes('reset')
isResetCommand(input) ==
    includes(toLowerCase(input), "start over") \/ includes(toLowerCase(input), "reset")

\* this.nodes.get(id).execute(this.state)
ExecNode(id, s, o) ==
    CASE id = "ask_origin" -> askOriginNode(s)
      [] id = "ask_destination" -> askDestinationNode(s)
      [] id = "ask_start_date" -> askStartDateNode(s, o.date)
      [] id = "ask_end_date" -> askEndDateNode(s, o.date)
      [] id = "ask_travelers" -> askTravelersNode(s)
      [] id = "ask_budget" -> askBudgetNode(s)
      [] id = "ask_purpose" -> askPurposeNode(s)
      [] id = "ask_planning_type" -> askPlanningTypeNode(s, o.plan)
      [] id = "search_options" -> searchOptionsNode(s, o)
      [] id = "handle_validation_issues" -> handleValidationIssuesNode(s)
      [] id = "generate_plan" -> generatePlanNode(s, o.words)

\* this.state.responseMessage || ''
TextOf(message) == IF Truthy(message) THEN Val(message) ELSE ""

PersonalizedNodes == {AskNodes[i] : i \in 2..Len(AskNodes)}

personalizeQuestion(nodeId, baseQuestion, pers) ==
    IF nodeId \in PersonalizedNodes /\ pers THEN PersonalizedQuestion ELSE baseQuestion

\* What a node's update says about the input it was executed with.
VerdictOf(id, updates) ==
    IF "validationError" \in DOMAIN updates /\ IsSome(updates.validationError)
    THEN "rejected"
    ELSE IF id \in PersonalizedNodes \cup {"ask_origin"} /\ "currentNode" \in DOMAIN updates
    THEN "accepted"
    ELSE "other"

\* The eight collected fields in the order of the ask nodes.
CollectedFields ==
    <<"originCity", "destinationCity", "startDate", "endDate",
      "travelers", "budget", "purpose", "planningType">>

Collected(s) == [i \in 1..Len(CollectedFields) |-> s[CollectedFields[i]]]

\* How the search node executed on s went: the branch it took.
SearchBranch(s, updates) ==
    IF "searchRetryCount" \in DOMAIN updates THEN "searched"
    ELSE IF "searchValidationIssues" \in DOMAIN updates THEN "failed"
    ELSE "skipped"

NoSearch == [branch |-> "none", with |-> <<>>, o |-> <<>>]

\* The result of one getResponse: the new state and the reply, and for the
\* properties what happened on the way: the node executed with the input and
\* its verdict, the update the node returned, the node executed for the next
\* question, and the search that node made.
Outcome(s, replyText, ran, verdict, updates, primed, search) ==
    [state |-> s, reply |-> replyText, ran |-> ran, verdict |-> verdict,
     updates |-> updates, primed |-> primed, search |-> search]

\* getResponse's continuation going on from node to node: it executes the
\* next node and, while that node moved currentNode to another registered
\* node, the node after it as well.
continueToNextNodeChaining(s, o, ran, verdict, updates, noNextNodeReply) ==
    LET nextNodeId == s.currentNode IN
    IF nextNodeId = END \/ s.conversationComplete
    THEN Outcome(s, TextOf(s.responseMessage), ran, verdict, updates, "none", NoSearch)
    ELSE IF nextNodeId \in nodes
    THEN LET cleared == [s EXCEPT !.lastUserInput = None] IN
         Bind(updateState(cleared, ExecNode(nextNodeId, cleared, o)), LAMBDA after :
         Bind(IF after.currentNode \in nodes \ {nextNodeId}
              THEN updateState(after, ExecNode(after.currentNode, after, o))
              ELSE after, LAMBDA chained :
             Outcome(chained, TextOf(chained.responseMessage), ran, verdict, updates,
                     nextNodeId, NoSearch)))
    ELSE Outcome(s, noNextNodeReply, ran, verdict, updates, "none", NoSearch)

\* Lines 1593-1621 and 1640-1670: the node completed; execute the next node
\* for its question.  s is the state after the merge of the node's update.
continueToNextNode(s, o, ran, verdict, updates, noNextNodeReply) ==
    LET nextNodeId == s.currentNode IN
    IF nextNodeId = END \/ s.conversationComplete
    THEN Outcome(s, TextOf(s.responseMessage), ran, verdict, updates, "none", NoSearch)
    ELSE IF nextNodeId \in nodes
    THEN LET cleared == [s EXCEPT !.lastUserInput = None] IN
         Bind(ExecNode(nextNodeId, cleared, o), LAMBDA nextStateUpdates :
         Bind(updateState(cleared, nextStateUpdates), LAMBDA after :
             IF nextNodeId = "search_options"
             THEN Outcome(after,
                          IF Truthy(after.responseMessage) THEN Val(after.responseMessage)
                          ELSE SearchStartingMessage,
                          ran, verdict, updates, nextNodeId,
                          [branch |-> SearchBranch(cleared, nextStateUpdates),
                           with |-> Collected(cleared), o |-> o])
             ELSE Outcome(after,
                          personalizeQuestion(nextNodeId, TextOf(after.responseMessage), o.pers),
                          ran, verdict, updates, nextNodeId, NoSearch)))
    ELSE Outcome(s, noNextNodeReply, ran, verdict, updates, "none", NoSearch)

getResponse(s, userInput, o) ==
    Bind(trim(userInput), LAMBDA input :
    IF isResetCommand(input)
    THEN Outcome(reset, ResetGreeting, "none", "reset", NoUpdate, "none", NoSearch)
    ELSE LET failover == s.currentNode \notin nodes
             ran == IF failover THEN "ask_origin" ELSE s.currentNode
         IN  Bind([s EXCEPT !.lastUserInput = Some(input), !.currentNode = ran], LAMBDA entered :
             Bind(ExecNode(ran, entered, o), LAMBDA stateUpdates :
             Bind(updateState(entered, stateUpdates), LAMBDA merged :
             LET verdict == VerdictOf(ran, stateUpdates) IN
             IF Truthy(merged.validationError)
             THEN Outcome([merged EXCEPT !.lastUserInput = None],
                          IF Truthy(merged.responseMessage) THEN Val(merged.responseMessage)
                          ELSE Val(merged.validationError),
                          ran, verdict, stateUpdates, "none", NoSearch)
             ELSE IF failover /\ (input = "" \/ Truthy(merged.responseMessage))
             THEN Outcome(merged, TextOf(merged.responseMessage),
                          ran, verdict, stateUpdates, "none", NoSearch)
             ELSE continueToNextNode(merged, o, ran, verdict, stateUpdates,
                                     IF failover THEN FailoverGreeting ELSE NoNextNodeMessage)))))

(***************************************************************************)
(* The state machine: one step is one call of getResponse on the engine of *)
(* a session (the route keeps one engine per session and awaits each call  *)
(* before it answers).  state is the engine's state, reply the text the    *)
(* last call returned; last and hist are history variables: the message   *)
(* of the last call and what the call did, and the inputs accepted since   *)
(* the state was last fresh.  engines and inflight belong to the route     *)
(* with several sessions and requests (below); a conversation of one       *)
(* session, one request at a time, leaves them alone.                      *)
(***************************************************************************)
\* The session identifiers of the requests: the one the route uses when the
\* request names none, and another.
SessionIds == {"default", "s1"}

\* The bound on the requests the route is processing at one time.
MaxInFlight == 2

\* The bound on the requests that arrive while another one is in flight.
MaxOverlaps == 1

\* A slot with no request in it.
Idle == [at |-> "idle"]

\* The bound on searchRetryCount: a call that would count one search more
\* is not taken.
MaxSearches == 2

\* The bound on the calls that continue a conversation whose plan has been
\* delivered (conversationComplete) without a reset.
MaxCallsAfterPlan == 1

SearchCount(s) == IF IsSome(s.searchRetryCount) THEN Val(s.searchRetryCount) ELSE 0

FreshHistory ==
    [clean |-> TRUE, asked |-> <<>>, accepted |-> <<>>, afterPlan |-> 0, redo |-> None]

\* The call with outcome r executed the search node, and the node searched.
Searched(r) ==
    \/ r.primed = "search_options" /\ r.search.branch # "skipped"
    \/ r.ran = "search_options" /\ SearchBranch(r.state, r.updates) # "skipped"

\* The call with outcome r took the handler's adjust-dates branch.
AdjustedDates(r) ==
    /\ r.ran = "handle_validation_issues"
    /\ "startDate" \in DOMAIN r.updates

\* What followed the last adjust-dates command (None when there was none
\* since the state was fresh): the ask nodes that accepted an input, in
\* order, up to the first search, and whether that search was made.
Redo(h, r) ==
    IF AdjustedDates(r) THEN Some([asked |-> <<>>, searched |-> FALSE])
    ELSE IF IsSome(h.redo) /\ ~Val(h.redo).searched
    THEN Some([asked |-> IF r.verdict = "accepted" THEN Append(Val(h.redo).asked, r.ran)
                         ELSE Val(h.redo).asked,
               searched |-> Searched(r)])
    ELSE h.redo

\* The history after a call with outcome r made in state s: it stays clean
\* as long as every call since the fresh state was an ask node accepting its
\* input, up to the eighth.
Track(h, s, r) ==
    IF r.verdict = "reset" THEN FreshHistory
    ELSE IF h.clean /\ r.verdict = "accepted" /\ Len(h.asked) < Len(AskNodes)
    THEN [clean |-> TRUE,
          asked |-> Append(h.asked, r.ran),
          accepted |-> Append(h.accepted,
              LET field == CHOOSE f \in {CollectedFields[i] : i \in 1..Len(CollectedFields)} :
                               f \in DOMAIN r.updates
              IN  r.updates[field]),
          afterPlan |-> 0,
          redo |-> None]
    ELSE [clean |-> FALSE, asked |-> <<>>, accepted |-> <<>>,
          afterPlan |-> IF s.conversationComplete THEN h.afterPlan + 1 ELSE h.afterPlan,
          redo |-> Redo(h, r)]

\* Every call that words the plan throws.
NoWords == [trans |-> None, accom |-> None, act |-> None, itin |-> None]

NoGateway ==
    [date |-> None, plan |-> None, pers |-> FALSE, alloc |-> None,
     trans |-> Some(<<>>), accom |-> Some(<<>>), act |-> Some(<<>>), val |-> None,
     words |-> NoWords]

\* The outcomes of the personalization: it throws, or it returns text.
Personalizations == {NoGateway, [NoGateway EXCEPT !.pers = TRUE]}

\* One call of getResponse, taken while fewer than calls calls have continued
\* a completed conversation.
CallWithin(userInput, o, calls) ==
    \E r \in {getResponse(state, userInput, o)} :
    /\ SearchCount(r.state) <= MaxSearches
    /\ r.verdict = "reset" \/ ~state.conversationComplete \/ hist.afterPlan < calls
    /\ state' = r.state
    /\ reply' = r.reply
    /\ last' = [input |-> userInput, ran |-> r.ran, verdict |-> r.verdict,
                updates |-> r.updates, primed |-> r.primed, search |-> r.search]
    /\ hist' = Track(hist, state, r)
    /\ UNCHANGED <<engines, inflight>>

Call(userInput, o) == CallWithin(userInput, o, MaxCallsAfterPlan)

Init ==
    /\ state = createInitialState
    /\ reply = ""
    /\ last = [input |-> "", ran |-> "none", verdict |-> "none", updates |-> NoUpdate,
               primed |-> "none", search |-> NoSearch]
    /\ hist = FreshHistory
    /\ engines = [id \in SessionIds |-> None]
    /\ inflight = [slots |-> [q \in 1..MaxInFlight |-> Idle], served |-> "", overlaps |-> 0]

\* A message with a reset phrase, whatever the current node.
Reset(I) ==
    \E i \in I : isResetCommand(trim(i)) /\ Call(i, NoGateway)

\* A message while currentNode is no node of the table (a sentinel).
Failover(I) ==
    /\ state.currentNode \notin nodes
    /\ \E i \in I, o \in Personalizations : ~isResetCommand(trim(i)) /\ Call(i, o)

\* A message while an ask node without a gateway call of its own is current.
Answer(node, I) ==
    /\ state.currentNode = node
    /\ \E i \in I, o \in Personalizations : ~isResetCommand(trim(i)) /\ Call(i, o)

AnswerOrigin(I) == Answer("ask_origin", I)
AnswerDestination(I) == Answer("ask_destination", I)
AnswerTravelers(I) == Answer("ask_travelers", I)
AnswerBudget(I) == Answer("ask_budget", I)
AnswerPurpose(I) == Answer("ask_purpose", I)

\* A message while a date node is current; D holds the date parser's outcomes.
AnswerDate(node, I, D) ==
    /\ state.currentNode = node
    /\ \E i \in I, o \in Personalizations, d \in D :
          ~isResetCommand(trim(i)) /\ Call(i, [o EXCEPT !.date = d])

AnswerStartDate(I, D) == AnswerDate("ask_start_date", I, D)
AnswerEndDate(I, D) == AnswerDate("ask_end_date", I, D)

\* A message while ask_planning_type is current; P holds the extraction's
\* outcomes and S the outcomes of the search that follows an accepted answer.
AnswerPlanningType(I, P, S) ==
    /\ state.currentNode = "ask_planning_type"
    /\ \E i \in I, p \in P, o \in S :
          ~isResetCommand(trim(i)) /\ Call(i, [o EXCEPT !.plan = p])

\* A message while handle_validation_issues is current: the next node is the
\* search (outcomes S) or a node whose question is personalized.
HandleValidationIssues(I, S) ==
    /\ state.currentNode = "handle_validation_issues"
    /\ \E i \in I, o \in S \cup Personalizations :
          ~isResetCommand(trim(i)) /\ Call(i, o)

\* A message while generate_plan is current; W holds the outcomes of the
\* calls that word the plan.
GeneratePlan(I, W) ==
    /\ state.currentNode = "generate_plan"
    /\ \E i \in I, w \in W :
          ~isResetCommand(trim(i)) /\ Call(i, [NoGateway EXCEPT !.words = w])

(***************************************************************************)
(* The conversation: every kind of answer to every question, with a search *)
(* that finds nothing or whose validation reports the total exceeded.      *)
(***************************************************************************)
Inputs ==
    {" ", "x", "Lyon", "LYON", "Oslo",
     "March 16", "March 20", "March 20, 2001",
     "2", "1000", "vacation!", "all.", "RESET", "please Start Over"}

DateOutcomes == {None, Some("2026-03-18")}

\* The extraction throws, names one category, or names none.
PlanOutcomes ==
    {None,
     Some([planningTypes |-> <<"transportation">>, interests |-> ""]),
     Some([planningTypes |-> <<>>, interests |-> ""])}

TotalExceeded ==
    [budgetIssues |-> <<>>, totalBudgetExceeded |-> TRUE,
     flightsBudgetExceeded |-> FALSE, totalEstimatedCost |-> None]

Searches == {NoGateway, [NoGateway EXCEPT !.val = Some(TotalExceeded)]}

Next ==
    \/ Reset(Inputs)
    \/ Failover(Inputs)
    \/ AnswerOrigin(Inputs)
    \/ AnswerDestination(Inputs)
    \/ AnswerStartDate(Inputs, DateOutcomes)
    \/ AnswerEndDate(Inputs, DateOutcomes)
    \/ AnswerTravelers(Inputs)
    \/ AnswerBudget(Inputs)
    \/ AnswerPurpose(Inputs)
    \/ AnswerPlanningType(Inputs, PlanOutcomes, Searches)
    \/ HandleValidationIssues(Inputs, Searches)
    \/ GeneratePlan(Inputs, {NoWords})

Spec == Init /\ [][Next]_vars

(***************************************************************************)
(* The search: one way through the eight questions, and then every outcome *)
(* of the search node's gateway calls with the commands of the validation  *)
(* handler.                                                                *)
(***************************************************************************)
CheapFlights == Some(<<"Flights Lyon to Oslo from $150 per person">>)
DearFlights == Some(<<"Flights Lyon to Oslo from $600 per person">>)

\* A validation answer that only estimates the total.
OverBudgetEstimate ==
    [budgetIssues |-> <<>>, totalBudgetExceeded |-> FALSE,
     flightsBudgetExceeded |-> FALSE, totalEstimatedCost |-> Some(1500)]

\* An allocation answer whose amounts do not add up to any budget asked for.
UnbalancedAllocation ==
    [transportation |-> 900, accommodation |-> 900, food |-> 100,
     activities |-> 50, contingency |-> 50]

\* The outcomes of a search step: every search returns (nothing, or flights
\* at a price), the validation or the allocation gateway answers, every
\* search throws (as without credentials), or one search throws while
\* another returns results.
SearchGateways ==
    {NoGateway,
     [NoGateway EXCEPT !.trans = CheapFlights],
     [NoGateway EXCEPT !.trans = DearFlights],
     [NoGateway EXCEPT !.val = Some(OverBudgetEstimate)],
     [NoGateway EXCEPT !.alloc = Some(UnbalancedAllocation)],
     [NoGateway EXCEPT !.trans = None, !.accom = None, !.act = None],
     [NoGateway EXCEPT !.trans = DearFlights, !.accom = None]}

\* The plan's wording: every call throws, every call returns text, or the
\* ranking returns and the itinerary throws.
Wordings ==
    {NoWords,
     [trans |-> Some("**Best Transportation Options:** ..."),
      accom |-> Some("**Best Accommodation Options:** ..."),
      act |-> Some("**Top Activities:** ..."),
      itin |-> Some("**Day-by-Day Itinerary:** ...")],
     [NoWords EXCEPT !.trans = Some("**Best Transportation Options:** ...")]}

\* A destination of 400 letters, which the city pattern admits.
RECURSIVE Repeated(_, _)
Repeated(text, n) == IF n = 0 THEN "" ELSE text \o Repeated(text, n - 1)

LongCityName == Repeated("Llan", 100)

Budgets == {"500", "1000", "$2,000", "flexible"}

HandlerCommands == {"buses", "continue", "$2,000", "change preferences"}

NextSearch ==
    \/ Reset({"reset"})
    \/ Failover({" ", "Lyon"})
    \/ AnswerOrigin({"Lyon"})
    \/ AnswerDestination({"Lyon", "Oslo", LongCityName})
    \/ AnswerStartDate({"March 16, 2026"}, {None})
    \/ AnswerEndDate({"March 16, 2026", "March 20, 2026"}, {None})
    \/ AnswerTravelers({"2"})
    \/ AnswerBudget(Budgets)
    \/ AnswerPurpose({"vacation!"})
    \/ AnswerPlanningType({"all."}, PlanOutcomes, SearchGateways)
    \/ HandleValidationIssues(HandlerCommands, SearchGateways)
    \/ GeneratePlan({"continue"}, Wordings)

SpecSearch == Init /\ [][NextSearch]_vars

(***************************************************************************)
(* The route with several sessions and several requests in flight.  POST   *)
(* looks the engine of the request's session up (creating it when the      *)
(* session is new) and awaits engine.getResponse; nothing makes a request  *)
(* wait for an earlier request of its session.  A getResponse runs without *)
(* interruption from one awaited gateway call to the next.  A node reads   *)
(* the state object it was handed, and after its gateway calls only fields *)
(* that are never assigned in place; so a request that waits inside a node *)
(* is its session, its input, the node and the state the node was handed   *)
(* (snapshot), and when the node returns its update is merged into the     *)
(* engine's state of that moment.  engines maps a session to its engine's  *)
(* state (None before the session's first request); inflight.slots holds   *)
(* the requests being processed and inflight.served the session of the     *)
(* request that took the last step; overlaps counts the requests that      *)
(* arrived while another was in flight).  The requests wait where a node   *)
(* awaits a gateway: in the two date nodes and the planning-type node      *)
(* executed with an input, in the search node when it searches and in the  *)
(* plan node when there are results to analyse.                            *)
(***************************************************************************)
\* conversationEngines.get(sessionId) / .set(sessionId, engine): the key.
engineKeyShared(sessionId) == "default"

engineKey(sessionId) == sessionId

\* The state of the session's engine; of a new engine when there is none.
engineOf(e, sessionId) ==
    IF IsSome(e[engineKey(sessionId)]) THEN Val(e[engineKey(sessionId)])
    ELSE createInitialState

setEngine(e, sessionId, s) == [e EXCEPT ![engineKey(sessionId)] = Some(s)]

\* The node, executed on s, awaits a gateway call.
awaitsGateway(id, s) ==
    CASE id \in {"ask_start_date", "ask_end_date"} -> ~NoInput(s)
      [] id = "ask_planning_type" ->
            ~NoInput(s) /\ Len(trim(toLowerCase(Val(s.lastUserInput)))) >= 2
      [] id = "search_options" ->
            notSearchedYet(s)
      [] id = "generate_plan" ->
            \/ NonEmptyResults(s.transportationResults)
            \/ NonEmptyResults(s.accommodationResults)
            \/ NonEmptyResults(s.activitiesResults)
      [] OTHER -> FALSE

\* Where a request is after a stretch of getResponse that left the engine's
\* state s: returned ("idle"), or waiting inside a node that was handed s.
Stretch(at, s) == [state |-> s, at |-> at]

\* getResponse from the merge of the executed node's update on: the checks
\* for a validation error and for the end, and the execution of the next
\* node, up to that node's first gateway call.
afterNode(merged, failover, input) ==
    IF Truthy(merged.validationError)
    THEN Stretch("idle", [merged EXCEPT !.lastUserInput = None])
    ELSE IF failover /\ (input = "" \/ Truthy(merged.responseMessage))
    THEN Stretch("idle", merged)
    ELSE IF merged.currentNode = END \/ merged.conversationComplete
    THEN Stretch("idle", merged)
    ELSE IF merged.currentNode \in nodes
    THEN Bind([merged EXCEPT !.lastUserInput = None], LAMBDA cleared :
         IF awaitsGateway(merged.currentNode, cleared)
         THEN Stretch("primed", cleared)
         ELSE Stretch("idle", updateState(cleared, ExecNode(merged.currentNode, cleared, NoGateway))))
    ELSE Stretch("idle", merged)

\* getResponse from its start to its first awaited gateway call.
beginResponse(s, userInput) ==
    Bind(trim(userInput), LAMBDA input :
    IF isResetCommand(input) THEN Stretch("idle", reset)
    ELSE LET failover == s.currentNode \notin nodes
             ran == IF failover THEN "ask_origin" ELSE s.currentNode
         IN  Bind([s EXCEPT !.lastUserInput = Some(input), !.currentNode = ran], LAMBDA entered :
             IF awaitsGateway(ran, entered)
             THEN Stretch("ran", entered)
             ELSE afterNode(updateState(entered, ExecNode(ran, entered, NoGateway)),
                            failover, input)))

\* The step of the request in slot q that ends as the stretch a says.
Proceed(q, sessionId, input, a, overlaps) ==
    /\ SearchCount(a.state) <= MaxSearches
    /\ overlaps <= MaxOverlaps
    /\ engines' = setEngine(engines, sessionId, a.state)
    /\ inflight' = [slots |-> [inflight.slots EXCEPT ![q] =
                                   IF a.at = "idle" THEN Idle
                                   ELSE [at |-> a.at, session |-> sessionId,
                                         input |-> input, node |-> a.state.currentNode,
                                         snapshot |-> a.state]],
                    served |-> sessionId, overlaps |-> overlaps]
    /\ UNCHANGED <<state, reply, last, hist>>

\* What the user of a session sends: the answer to the question the engine
\* is at, or a reset.
AnswerTo ==
    [ask_origin |-> {"Lyon"}, ask_destination |-> {"Oslo"},
     ask_start_date |-> {"March 16, 2026"}, ask_end_date |-> {"March 20, 2026"},
     ask_travelers |-> {"2"}, ask_budget |-> {"1000"}, ask_purpose |-> {"vacation!"},
     ask_planning_type |-> {"all."}, search_options |-> {"continue"},
     handle_validation_issues |-> {"continue", "buses"},
     generate_plan |-> {"continue"}]

\* The second session is followed over its first questions only.
MessagesAt(sessionId, s) ==
    IF s.currentNode \notin nodes THEN AnswerTo.ask_origin \cup {"reset"}
    ELSE IF \/ sessionId = "default"
            \/ s.currentNode \in {"ask_origin", "ask_destination", "ask_start_date"}
    THEN AnswerTo[s.currentNode] \cup {"reset"}
    ELSE {"reset"}

\* A request arrives (in the first free slot) and runs to its first gateway
\* call, or to its end.
Arrive(q, sessionId) ==
    /\ inflight.slots[q] = Idle
    /\ \A p \in 1..(q - 1) : inflight.slots[p] # Idle
    /\ \E m \in MessagesAt(sessionId, engineOf(engines, sessionId)) :
          Proceed(q, sessionId, trim(m), beginResponse(engineOf(engines, sessionId), m),
                  IF \E p \in 1..MaxInFlight : inflight.slots[p] # Idle
                  THEN inflight.overlaps + 1 ELSE inflight.overlaps)

\* The gateway call of the node executed with the input returns (o): the
\* node's update is merged and getResponse goes on.
NodeReturns(q, o) ==
    /\ inflight.slots[q].at = "ran"
    /\ LET r == inflight.slots[q] IN
       Proceed(q, r.session, r.input,
               afterNode(updateState(engineOf(engines, r.session),
                                     ExecNode(r.node, r.snapshot, o)),
                         FALSE, r.input),
               inflight.overlaps)

\* The gateway calls of the node executed next (the search node, the plan
\* node) return (o): its update is merged and getResponse returns.
NextNodeReturns(q, o) ==
    /\ inflight.slots[q].at = "primed"
    /\ LET r == inflight.slots[q] IN
       Proceed(q, r.session, r.input,
               Stretch("idle", updateState(engineOf(engines, r.session),
                                           ExecNode(r.node, r.snapshot, o))),
               inflight.overlaps)

NextRequests ==
    \/ \E q \in 1..MaxInFlight, id \in SessionIds : Arrive(q, id)
    \/ \E q \in 1..MaxInFlight : NodeReturns(q, NoGateway)
    \/ \E q \in 1..MaxInFlight, o \in {NoGateway, [NoGateway EXCEPT !.trans = DearFlights]} :
          NextNodeReturns(q, o)

SpecRequests == Init /\ [][NextRequests]_vars

(***************************************************************************)
(* Properties of the conversation (checked under Spec).                    *)
(***************************************************************************)
\* The node an input is handed to: the current node, or ask_origin when the
\* current node is a sentinel (getResponse makes ask_origin current first).
ReceivingNode(s) == IF s.currentNode \in nodes THEN s.currentNode ELSE "ask_origin"

\* The day a stored date text stands for: the day the date nodes validated
\* when they accepted it (a text without a year is a day of the current year).
DayMeant(field) == IF IsSome(field) THEN newDate(withCurrentYear(Val(field))) ELSE None

\* A text that is valid for a date node: it names a day (of the current year
\* when it names no year) that is not before today for the start date, and
\* that is after the start date by at most 365 days for the end date.
ValidDay(node, s, text) ==
    LET day == newDate(withCurrentYear(trim(text)))
        start == DayMeant(s.startDate)
    IN  /\ IsSome(day)
        /\ node = "ask_start_date" => Val(day) >= Today
        /\ node = "ask_end_date" =>
              /\ IsSome(start)
              /\ Val(day) > Val(start)
              /\ Val(day) - Val(start) <= 365

\* C1: from the fresh state, as long as every input was accepted by the ask
\* node that received it (hist.clean), the nodes that received the inputs are
\* the ask nodes in their fixed order, none twice; no validation error is
\* pending and the node that waits is the next in the order; a date node
\* that waits accepts every text that is valid for it, also when the date
\* gateway fails; and with the eighth accepted input the search node was
\* executed (it searched, or its search failed: it did not skip) on a state
\* whose collected fields are the eight accepted values, which the state
\* still holds.
C1_ValidAnswersReachSearch ==
    hist.clean =>
        LET n == Len(hist.asked) IN
        /\ hist.asked = SubSeq(AskNodes, 1, n)
        /\ Cardinality({hist.asked[i] : i \in 1..n}) = n
        /\ ~Truthy(state.validationError)
        /\ n = 0 => state.currentNode = START
        /\ n \in 1..(Len(AskNodes) - 1) =>
              /\ state.currentNode = AskNodes[n + 1]
              /\ last.primed = AskNodes[n + 1]
              /\ \A i \in 1..n : state[CollectedFields[i]] = hist.accepted[i]
        /\ n \in 1..(Len(AskNodes) - 1) /\ state.currentNode \in {"ask_start_date", "ask_end_date"} =>
              \A i \in Inputs :
                  ValidDay(state.currentNode, state, i) =>
                      getResponse(state, i, NoGateway).verdict = "accepted"
        /\ n = Len(AskNodes) =>
              /\ last.primed = "search_options"
              /\ last.search.branch \in {"searched", "failed"}
              /\ last.search.with = hist.accepted
              /\ Collected(state) = hist.accepted

TripFields ==
    {"originCity", "destinationCity", "startDate", "endDate", "travelers", "budget",
     "purpose", "planningType", "transportationResults", "accommodationResults",
     "activitiesResults", "budgetAllocation"}

\* C2: a call in which the ask node rejects its input leaves that node the
\* current one (the node current before the call; ask_origin when the call
\* began on a sentinel), leaves every collected trip field as it was, clears
\* lastUserInput, and replies with the node's clarifying message; and the
\* call after a rejection, unless it is a reset, executes the same node.
C2_RejectionKeepsNode ==
    [][/\ last'.verdict = "rejected" =>
            /\ last'.ran = ReceivingNode(state)
            /\ state'.currentNode = last'.ran
            /\ \A f \in TripFields : state'[f] = state[f]
            /\ state'.lastUserInput = None
            /\ reply' = Val(last'.updates.responseMessage)
            /\ reply' # ""
       /\ (last.verdict = "rejected" /\ last'.verdict # "reset") => last'.ran = last.ran]_vars

C2_EndDateRejected ==
    /\ last.verdict = "rejected"
    /\ last.ran = "ask_end_date"
    /\ state.currentNode = "ask_end_date"
    /\ IsSome(state.startDate)
    /\ ~IsSome(state.endDate)

ResetPhrases == {"RESET", "please Start Over", " reset "}

\* C3: in every reachable state, a message that holds "reset" or "start
\* over" in any letter case leaves the initial state: currentNode is the start
\* sentinel, conversationComplete is false and every optional field but the
\* transportation mode (which restarts as flights) is absent; no node is
\* executed, neither with the input nor for a question.
C3_ResetFromAnywhere ==
    \A i \in ResetPhrases :
        LET r == getResponse(state, i, NoGateway) IN
        /\ r.state.currentNode = START
        /\ r.state.conversationComplete = FALSE
        /\ \A f \in OptionalFields \ {"transportationType"} : r.state[f] = None
        /\ r.state.transportationType = Some("flights")
        /\ r.ran = "none"
        /\ r.primed = "none"

C3_ResetWithIssuesPending ==
    /\ state.currentNode = "handle_validation_issues"
    /\ HasIssues(state)
    /\ IsSome(state.budgetAllocation)
    /\ getResponse(state, "RESET", NoGateway).verdict = "reset"
    /\ getResponse(state, "RESET", NoGateway).state.budgetIssues = None

\* C9: whenever the end-date node has accepted an input, the end date it
\* stored is strictly after the start date and at most 365 days after it.
C9_AcceptedEndAfterStart ==
    (last.ran = "ask_end_date" /\ last.verdict = "accepted") =>
        LET start == DayMeant(state.startDate)
            end == DayMeant(state.endDate)
        IN  /\ IsSome(start) /\ IsSome(end)
            /\ Val(end) > Val(start)
            /\ Val(end) - Val(start) <= 365

\* A text that is no city name for the node: empty after trimming, shorter
\* than two characters, holding a character that is no letter, space, hyphen
\* or comma, or (for the destination) the stored origin in any letter case.
NotACity(node, s, text) ==
    LET t == trim(text) IN
    \/ t = ""
    \/ Len(t) < 2
    \/ \E k \in 1..Len(t) : ~(IsLetter(Ch(t, k)) \/ Ch(t, k) \in {" ", "-", ","})
    \/ /\ node = "ask_destination"
       /\ IsSome(s.originCity)
       /\ toLowerCase(t) = toLowerCase(Val(s.originCity))

CityFieldOf == [ask_origin |-> "originCity", ask_destination |-> "destinationCity"]

\* C10: whenever the origin or the destination node is the one to receive
\* the input, every input that is no city name for it (and no reset) ends
\* the call with that node current, the node's city field as it was, and a
\* reply that is not empty.
C10_InvalidCityKeepsNode ==
    LET node == ReceivingNode(state) IN
    node \in DOMAIN CityFieldOf =>
        \A i \in Inputs, o \in Personalizations :
            (NotACity(node, state, i) /\ ~includes(toLowerCase(i), "reset")
                /\ ~includes(toLowerCase(i), "start over")) =>
                LET r == getResponse(state, i, o) IN
                /\ r.state.currentNode = node
                /\ r.state[CityFieldOf[node]] = state[CityFieldOf[node]]
                /\ r.reply # ""

C10_SameCityRejected ==
    /\ last.ran = "ask_destination"
    /\ last.verdict = "rejected"
    /\ state.currentNode = "ask_destination"
    /\ state.originCity = Some("Lyon")
    /\ state.destinationCity = None
    /\ last.updates.validationError = Some("Destination should be different from origin.")

LowBudgetError == "That budget seems quite low. Are you sure?"

\* C11: when the budget node has just warned that the amount of a budget is
\* below 100, the same text sent again as the next message is accepted:
\* budget is set to that text and currentNode advances to ask_purpose.
C11_LowBudgetAcceptedOnSecondPass ==
    (/\ last.ran = "ask_budget"
     /\ last.verdict = "rejected"
     /\ last.updates.validationError = Some(LowBudgetError)) =>
        \A o \in Personalizations :
            LET r == getResponse(state, last.input, o) IN
            /\ r.ran = "ask_budget"
            /\ r.verdict = "accepted"
            /\ r.state.budget = Some(trim(last.input))
            /\ r.state.currentNode = "ask_purpose"

\* Texts for the travelers node: no number, numbers below 1, numbers and
\* number words within the range, numbers above 50.
TravelerTexts ==
    {" ", "x", "March 16", "eleven", "0", "-1", "2", "ten", "50", "51", "1000"}

\* The number a text stands for: one of the ten number words in any letter
\* case, or a decimal integer; None when it is neither.
TravelersMeant(text) ==
    LET t == trim(text)
        digits == IF t # "" /\ Ch(t, 1) = "-" THEN Sub(t, 2, Len(t)) ELSE t
    IN  IF toLowerCase(t) \in DOMAIN numberWords THEN Some(numberWords[toLowerCase(t)])
        ELSE IF AllDigits(digits)
        THEN Some((IF Ch(t, 1) = "-" THEN -1 ELSE 1) * DecimalValue(digits))
        ELSE None

MinTravelers == 1
MaxTravelers == 50

\* C12: in every reachable state a set travelers is an integer from 1 to 50;
\* and whenever the travelers node is current, every text that stands for no
\* number, for a number below 1 or for a number above 50 leaves the node
\* current and travelers as it was, with a validation error unless the text
\* is blank, and so does the same text sent once more.
C12_TravelersWithinRange ==
    /\ IsSome(state.travelers) => Val(state.travelers) \in MinTravelers..MaxTravelers
    /\ state.currentNode = "ask_travelers" =>
          \A i \in TravelerTexts, o \in Personalizations :
              LET n == TravelersMeant(i)
                  r == getResponse(state, i, o)
                  again == getResponse(r.state, i, o)
              IN  (~IsSome(n) \/ Val(n) < MinTravelers \/ Val(n) > MaxTravelers) =>
                      /\ r.ran = "ask_travelers"
                      /\ trim(i) # "" => r.verdict = "rejected"
                      /\ r.state.currentNode = "ask_travelers"
                      /\ r.state.travelers = state.travelers
                      /\ again.ran = "ask_travelers"
                      /\ trim(i) # "" => again.verdict = "rejected"
                      /\ again.state.currentNode = "ask_travelers"
                      /\ again.state.travelers = state.travelers

C12_LargeGroupRejectedAgain ==
    /\ last.ran = "ask_travelers"
    /\ last.verdict = "rejected"
    /\ last.input = "1000"
    /\ last.updates.validationError = Some("That's quite a large group!")
    /\ state.currentNode = "ask_travelers"
    /\ state.travelers = None
    /\ getResponse(state, "1000", NoGateway).verdict = "rejected"

(***************************************************************************)
(* Properties of the search and of the handling of its issues (checked     *)
(* under SpecSearch).                                                      *)
(***************************************************************************)
\* The numeric budget: the amount the budget node read in the text when it
\* accepted it; None when the text names no amount.
NumericBudget(budget) ==
    IF IsSome(budget) THEN askedAmount(toLowerCase(trim(Val(budget)))) ELSE None

\* The handler has shown its summary and waits for a command.
AwaitingCommand(s) ==
    /\ s.currentNode = "handle_validation_issues"
    /\ IsTrue(s.validationMessageShown)
    /\ ~s.conversationComplete

\* C4: when the handler has shown its summary and the pending budget issues
\* hold a flights-budget-exceeded or a total-budget-exceeded issue, the reply
\* "buses" makes the transportation mode buses and routes to the search
\* node, which is executed in the same call.
C4_BusesRoutesToSearch ==
    (/\ AwaitingCommand(state)
     /\ \/ HasIssueWith(state.budgetIssues, "FLIGHTS_BUDGET_EXCEEDED")
        \/ HasIssueWith(state.budgetIssues, "TOTAL_BUDGET_EXCEEDED")) =>
        \A o \in SearchGateways :
            LET r == getResponse(state, "buses", o) IN
            /\ r.updates = handleValidationIssuesNode([state EXCEPT !.lastUserInput = Some("buses")])
            /\ "transportationType" \in DOMAIN r.updates
            /\ r.updates.transportationType = Some("buses")
            /\ r.updates.currentNode = "search_options"
            /\ r.primed = "search_options"
            /\ r.state.transportationType = Some("buses")

\* C5: when the handler accepts the "buses" command, the state it hands to
\* the search node holds no transportation, accommodation or activities
\* results, no allocation and two empty issue lists, and the search node
\* executed next does search (or fails searching): it does not skip.
C5_BusesClearsAllResults ==
    (AwaitingCommand(state)
        /\ (IsTrue(state.flightsBudgetExceeded) \/ IsTrue(state.totalBudgetExceeded))) =>
        LET entered == [state EXCEPT !.lastUserInput = Some("buses")]
            cleared == updateState(entered, handleValidationIssuesNode(entered))
        IN  /\ cleared.transportationType = Some("buses")
            /\ cleared.transportationResults = None
            /\ cleared.accommodationResults = None
            /\ cleared.activitiesResults = None
            /\ cleared.budgetAllocation = None
            /\ cleared.budgetIssues = Some(<<>>)
            /\ cleared.scheduleIssues = Some(<<>>)
            /\ \A o \in SearchGateways :
                  getResponse(state, "buses", o).search.branch \in {"searched", "failed"}

AllocationTolerance == 10

Distance(a, b) == IF a >= b THEN a - b ELSE b - a

\* C6: in every reachable state whose budgetAllocation is set and whose
\* budget names an amount, the five parts of the allocation add up to that
\* amount within the tolerance.
C6_AllocationSumsToBudget ==
    (IsSome(state.budgetAllocation) /\ IsSome(NumericBudget(state.budget))) =>
        Distance(AllocationSum(Val(state.budgetAllocation)), Val(NumericBudget(state.budget)))
            <= AllocationTolerance

\* The search the last call made searched and validated with the gateway's
\* answer (llm TRUE) or with the deterministic fallback (llm FALSE).
Validated(llm) ==
    /\ last.primed = "search_options"
    /\ last.search.branch = "searched"
    /\ IsSome(last.search.o.val) = llm

\* C7: whenever the validation of a search step estimated a total cost above
\* the numeric budget, the budget issues of the resulting state hold a
\* TOTAL_BUDGET_EXCEEDED entry and the step ends with currentNode =
\* handle_validation_issues.
C7_EstimateOverBudgetIsAnIssue ==
    (/\ Validated(TRUE)
     /\ IsSome(Val(last.search.o.val).totalEstimatedCost)
     /\ IsSome(NumericBudget(state.budget))
     /\ Val(Val(last.search.o.val).totalEstimatedCost) > Val(NumericBudget(state.budget))) =>
        /\ HasIssueWith(state.budgetIssues, "TOTAL_BUDGET_EXCEEDED")
        /\ state.currentNode = "handle_validation_issues"

C7_EstimateOverBudgetFlagged ==
    /\ Validated(TRUE)
    /\ Val(last.search.o.val).totalEstimatedCost = Some(1500)
    /\ ~Val(last.search.o.val).totalBudgetExceeded
    /\ state.budget = Some("1000")
    /\ state.currentNode = "handle_validation_issues"
    /\ HasIssueWith(state.budgetIssues, "TOTAL_BUDGET_EXCEEDED")

\* C8: after a search validated by the deterministic fallback with the
\* transportation mode flights, when prices were found in the transportation
\* results and the budget names an amount: the budget issues hold a
\* FLIGHTS_BUDGET_EXCEEDED entry exactly when the minimum price times the
\* travelers is more than 40% of that amount, and then flightsBudgetExceeded
\* is true and the step ends with currentNode = handle_validation_issues.
C8_FlightsIssueExactlyOverThreshold ==
    (/\ Validated(FALSE)
     /\ state.transportationType = Some("flights")
     /\ NonEmptyResults(state.transportationResults)
     /\ allPrices(JoinTexts(Val(state.transportationResults))) # {}
     /\ IsSome(NumericBudget(state.budget))) =>
        LET cost == Min(allPrices(JoinTexts(Val(state.transportationResults))))
                        * travelersOrOne(state)
            over == 100 * cost > FlightsThresholdPct * Val(NumericBudget(state.budget))
        IN  /\ over <=> HasIssueWith(state.budgetIssues, "FLIGHTS_BUDGET_EXCEEDED")
            /\ over => /\ IsTrue(state.flightsBudgetExceeded)
                       /\ state.currentNode = "handle_validation_issues"

Categories ==
    [transportation |-> "trans", accommodation |-> "accom", activities |-> "act"]

\* One of the searches the step made for the selected categories threw.
AnySearchFailed(s, o) ==
    \E c \in DOMAIN Categories : Selected(s, c) /\ ~IsSome(o[Categories[c]])

\* C13: whenever one of the searches of a search step failed, the state after
\* the step holds no transportation, accommodation or activities results, its
\* searchValidationIssues is the one synthetic issue and its two issue lists
\* are empty or absent, budgetAllocation is absent and currentNode is
\* generate_plan; and the next call executes generate_plan and no search.
C13_FailedSearchAborts ==
    (/\ last.primed = "search_options"
     /\ last.search.branch # "skipped"
     /\ AnySearchFailed(state, last.search.o)) =>
        /\ state.transportationResults = None
        /\ state.accommodationResults = None
        /\ state.activitiesResults = None
        /\ state.searchValidationIssues = Some(<<SearchFailedIssue>>)
        /\ ~HasIssues(state)
        /\ state.budgetAllocation = None
        /\ state.currentNode = "generate_plan"
        /\ \A i \in HandlerCommands, o \in SearchGateways :
              LET r == getResponse(state, i, o) IN
              /\ r.ran = "generate_plan"
              /\ r.primed = "none"
              /\ r.state.conversationComplete

C13_OneSearchOfThreeFailed ==
    /\ last.primed = "search_options"
    /\ last.search.branch = "failed"
    /\ last.search.o.trans = DearFlights
    /\ last.search.o.accom = None
    /\ Selected(state, "transportation") /\ Selected(state, "accommodation")
    /\ state.currentNode = "generate_plan"
    /\ state.transportationResults = None


PastSearchStage == {"search_options", "handle_validation_issues", "generate_plan", END}

\* C17: in every reachable state whose currentNode is the search node, the
\* validation handler, the plan node or the terminal sentinel, planningType
\* is set and holds at least one category.
C17_PlanningTypeSetPastSearch ==
    state.currentNode \in PastSearchStage =>
        /\ IsSome(state.planningType)
        /\ Len(Val(state.planningType)) > 0

C17_PlanningTypeAskedAgain ==
    /\ last.ran = "ask_planning_type"
    /\ last.verdict = "accepted"
    /\ SearchCount(state) = 2
    /\ state.currentNode \in PastSearchStage
    /\ state.planningType = Some(AllThree)


\* The input the client sends by itself after a reply with the searching
\* flag, as the claim names it and as the page sends it.
Sentinels == {"continue", "__CONTINUE_SEARCH__"}

IsOptional(o, Fits(_)) == o = None \/ (Len(o) = 1 /\ Fits(o[1]))

IsText(v) == v \in STRING
IsTexts(v) == \A k \in 1..Len(v) : v[k] \in STRING
IsCount(v) == v \in Nat
IsFlag(v) == v \in BOOLEAN
IsAllocation(v) ==
    /\ DOMAIN v = {"transportation", "accommodation", "food", "activities", "contingency"}
    /\ \A k \in DOMAIN v : v[k] \in Nat

\* A state of the shape TravelPlannerState declares, with a current node the
\* engine knows how to go on from.
ValidState(s) ==
    /\ DOMAIN s = OptionalFields \cup {"currentNode", "conversationComplete"}
    /\ s.currentNode \in nodes \cup {START, END}
    /\ s.conversationComplete \in BOOLEAN
    /\ \A f \in {"originCity", "destinationCity", "startDate", "endDate", "budget",
                  "interests", "lastUserInput", "validationError", "responseMessage"} :
          IsOptional(s[f], IsText)
    /\ s.purpose \in {None, Some("business"), Some("vacation")}
    /\ s.transportationType \in {None, Some("flights"), Some("buses")}
    /\ IsOptional(s.travelers, IsCount)
    /\ IsOptional(s.searchRetryCount, IsCount)
    /\ \A f \in {"planningType", "transportationResults", "accommodationResults",
                  "activitiesResults", "searchValidationIssues", "budgetIssues",
                  "scheduleIssues"} :
          IsOptional(s[f], IsTexts)
    /\ \A f \in {"flightsBudgetExceeded", "totalBudgetExceeded",
                  "accommodationBudgetExceeded", "validationMessageShown"} :
          IsOptional(s[f], IsFlag)
    /\ IsOptional(s.budgetAllocation, IsAllocation)

\* Every gateway call throws; the date gateway returns text that is no date;
\* the reasoning gateway throws and the searches find nothing; one search
\* throws while another returns results.
AllGatewaysFailing ==
    [date |-> None, plan |-> None, pers |-> FALSE, alloc |-> None,
     trans |-> None, accom |-> None, act |-> None, val |-> None,
     words |-> NoWords]

GatewayFailures ==
    {AllGatewaysFailing,
     [AllGatewaysFailing EXCEPT !.date = Some("I cannot tell.")],
     NoGateway,
     [NoGateway EXCEPT !.trans = DearFlights, !.accom = None]}

\* C14: every reachable state is a valid state and the reply of the call
\* that led to it is a text; and from every reachable state, for every input
\* and every way the gateways fail, getResponse returns a text and a valid
\* state.
C14_GatewayFailuresAreContained ==
    /\ ValidState(state)
    /\ IsText(reply)
    /\ \A i \in Inputs, o \in GatewayFailures :
          LET r == getResponse(state, i, o) IN
          /\ IsText(r.reply)
          /\ ValidState(r.state)

C14_FallbacksCarriedTheSearch ==
    /\ last.primed = "search_options"
    /\ last.search.o.val = None /\ last.search.o.alloc = None
    /\ last.search.branch = "searched"
    /\ IsSome(state.budgetAllocation)
    /\ getResponse(state, "2", AllGatewaysFailing).reply # ""

RegisteredNodes == 11

\* Gateway answers that hold node ids where texts of the trip are expected.
MisleadingGateway ==
    [date |-> Some("generate_plan"),
     plan |-> Some([planningTypes |-> <<"__end__">>, interests |-> "currentNode: ask_origin"]),
     pers |-> TRUE,
     alloc |-> None,
     trans |-> Some(<<"currentNode: search_options">>),
     accom |-> Some(<<"ask_budget">>),
     act |-> Some(<<"__start__">>),
     val |-> Some([budgetIssues |-> <<"handle_validation_issues">>,
                   totalBudgetExceeded |-> FALSE, flightsBudgetExceeded |-> FALSE,
                   totalEstimatedCost |-> None]),
     words |-> [trans |-> Some("currentNode: ask_origin"), accom |-> Some("__start__"),
                act |-> Some("search_options"), itin |-> Some("ask_budget")]]

\* C15: eleven nodes are registered; in every reachable state currentNode is
\* one of them or the start or the terminal sentinel, and so it is after a
\* call with any input, also when the gateways answer with node ids.
C15_CurrentNodeIsRegistered ==
    /\ Cardinality(nodes) = RegisteredNodes
    /\ state.currentNode \in nodes \cup {START, END}
    /\ \A i \in Inputs \cup nodes :
          getResponse(state, i, MisleadingGateway).state.currentNode \in nodes \cup {START, END}

C15_TerminalAfterPlan ==
    /\ state.currentNode = END
    /\ state.conversationComplete
    /\ last.ran = "generate_plan"
    /\ getResponse(state, "generate_plan", MisleadingGateway).state.currentNode = "ask_origin"

\* C16: every time getResponse has returned, lastUserInput is absent from the
\* state (an empty text counts as absent: the nodes read it as no input).
C16_LastUserInputConsumed ==
    ~Truthy(state.lastUserInput)

(***************************************************************************)
(* Properties of the route (checked under SpecRequests).                   *)
(***************************************************************************)
\* The requests in flight of a session.
InFlightOf(sessionId) ==
    {q \in 1..MaxInFlight : inflight.slots[q] # Idle /\ inflight.slots[q].session = sessionId}

\* C18: the requests of one session are processed one after the other: while
\* a request of a session waits for a gateway inside a node, no other request
\* of that session is inside a node, so that no node runs on an input meant
\* for another and no search runs twice for one generation.
C18_RequestsOfASessionDoNotOverlap ==
    \A id \in SessionIds : Cardinality(InFlightOf(id)) <= 1

\* C19: a step of a request (a reset included) leaves the state of the engine
\* of every session but the request's own as it was, whatever requests of
\* other sessions are in flight.
C19_OtherSessionsUntouched ==
    [][\A id \in SessionIds : id # inflight'.served => engines'[id] = engines[id]]_vars

\* A request of the second session has just been served while a request of
\* the first one waits for its gateway, and the two conversations are at
\* different questions.
C19_SessionsInterleaved ==
    /\ inflight.served = "s1"
    /\ InFlightOf("default") # {}
    /\ IsSome(engines["default"]) /\ IsSome(engines["s1"])
    /\ Val(engines["default"]).currentNode = "ask_planning_type"
    /\ Val(engines["s1"]).currentNode = "ask_destination"
    /\ IsSome(Val(engines["s1"]).originCity)

(***************************************************************************)
(* Properties of the failover (checked under Spec).                        *)
(***************************************************************************)
\* C21: an input that arrives while currentNode is not in the node table is
\* processed as from a freshly initialized state: the resulting state is the
\* one the same input yields from createInitialState, so that no field and
\* no flag of the earlier conversation survives.
C21_FailoverIsFreshInitialization ==
    state.currentNode \notin nodes =>
        \A i \in Inputs :
            getResponse(state, i, NoGateway).state
                = getResponse(createInitialState, i, NoGateway).state

(***************************************************************************)
(* Properties of the graph (checked under SpecSearch).                     *)
(***************************************************************************)
\* An exported edge leads from a to b.
Exported(a, b) == \E e \in exportGraphStructure : e.source = a /\ b \in e.target

\* C22: the exported graph matches the engine: when a node that was executed
\* (with the input, or next for its question) moved currentNode from its own
\* id to another, an exported edge leads from the one to the other.
C22_NodeChangesAreExportedEdges ==
    /\ (/\ last.ran # "none"
        /\ "currentNode" \in DOMAIN last.updates
        /\ last.updates.currentNode # last.ran)
            => Exported(last.ran, last.updates.currentNode)
    /\ (last.primed # "none" /\ state.currentNode # last.primed)
            => Exported(last.primed, state.currentNode)

(***************************************************************************)
(* Properties of the search queries (checked under SpecSearch).            *)
(***************************************************************************)
QueryLimit == 400

\* The queries the search node issued for the state it left, which holds
\* the allocation it searched with.
QueriesIssued(s) ==
    LET p == [s EXCEPT !.budgetAllocation = Val(s.budgetAllocation)] IN
    (IF Selected(s, "transportation")
     THEN {getTransportationQuery(p, Val(s.transportationType))} ELSE {})
    \cup (IF Selected(s, "accommodation") THEN {getAccommodationQuery(p)} ELSE {})
    \cup (IF Selected(s, "activities") THEN {getActivitiesQuery(p)} ELSE {})

\* C23: every query the search node passes to the search gateway is shorter
\* than 400 characters, whatever accepted cities, dates, traveler count and
\* allocation it is built from.
C23_QueriesUnderLimit ==
    (last.search.branch = "searched" /\ IsSome(state.budgetAllocation)) =>
        \A q \in QueriesIssued(state) : Len(q) < QueryLimit

(***************************************************************************)
(* Properties of the planning-type answer (checked under Spec).            *)
(***************************************************************************)
\* Answers that mention only some of the categories, each with the
\* categories it mentions.
MentionedIn ==
    [a \in {"activities and hotels", "a small hotel", "flights from Dallas"} |->
        CASE a = "activities and hotels" -> {"accommodation", "activities"}
          [] a = "a small hotel" -> {"accommodation"}
          [] a = "flights from Dallas" -> {"transportation"}]

\* C24: when the reasoning gateway fails and the planning-type answer
\* mentions only some categories, the keyword matching selects exactly the
\* mentioned ones ("activities and hotels": accommodation and activities,
\* transportation excluded), keeps the travelers and reaches the search node.
C24_KeywordFallbackSelectsMentioned ==
    (state.currentNode = "ask_planning_type" /\ IsSome(state.travelers)) =>
        \A a \in DOMAIN MentionedIn :
            LET r == getResponse(state, a, NoGateway) IN
            /\ r.ran = "ask_planning_type" /\ r.verdict = "accepted"
            /\ r.primed = "search_options"
            /\ r.state.travelers = state.travelers
            /\ {Val(r.state.planningType)[k] : k \in 1..Len(Val(r.state.planningType))}
                   = MentionedIn[a]

(***************************************************************************)
(* Properties of the stored dates (checked under Spec).                    *)
(***************************************************************************)
\* C25: a start date or an end date held by the state is in the normalized
\* form YYYY-MM-DD and names a day of the calendar, on whichever path (the
\* reasoning gateway's reading or the native parsing) it was accepted.
C25_StoredDatesAreNormalized ==
    \A d \in {state.startDate, state.endDate} :
        IsSome(d) => IsIsoDate(Val(d)) /\ IsSome(newDate(Val(d)))

(***************************************************************************)
(* Properties of one call (checked under SpecSearch).                      *)
(***************************************************************************)
\* The gateway outcomes a call of the search conversation can meet.
SearchOracles ==
    {[o EXCEPT !.plan = p] : o \in SearchGateways \cup Personalizations, p \in PlanOutcomes}
        \cup {[NoGateway EXCEPT !.words = w] : w \in Wordings}

\* The states that at most two node executions lead to from s on an input:
\* the active node executed with the input and, where that left a
\* registered node current and the conversation open, this node executed
\* once with no input.
AfterAtMostTwoNodes(s, userInput, o) ==
    LET entered == [s EXCEPT !.lastUserInput = Some(trim(userInput)),
                             !.currentNode = IF s.currentNode \in nodes
                                             THEN s.currentNode ELSE "ask_origin"]
        first == updateState(entered, ExecNode(entered.currentNode, entered, o))
        cleared == [first EXCEPT !.lastUserInput = None]
    IN  {first, cleared}
            \cup (IF first.currentNode \in nodes /\ ~first.conversationComplete
                  THEN {updateState(cleared, ExecNode(first.currentNode, cleared, o))}
                  ELSE {})

\* C26: one call of getResponse executes the active node with the input and
\* at most one more node, once and with no input, and returns: the state it
\* leaves is one that these at most two executions produce, also when the
\* second node wrote another node into currentNode.
C26_AtMostTwoNodesPerCall ==
    [][last'.verdict # "reset" =>
          \E o \in SearchOracles : state' \in AfterAtMostTwoNodes(state, last'.input, o)]_vars

\* The search node, executed next, moved currentNode on to the plan node,
\* and the call returned without executing it.
C26_ReturnedBeforePlanNode ==
    /\ last.primed = "search_options"
    /\ state.currentNode = "generate_plan"
    /\ ~state.conversationComplete

HandedToNextNode(s, userInput, updates) ==
    LET entered == [s EXCEPT !.lastUserInput = Some(trim(userInput)),
                             !.currentNode = IF s.currentNode \in nodes
                                             THEN s.currentNode ELSE "ask_origin"]
    IN  [updateState(entered, updates) EXCEPT !.lastUserInput = None]

AnyResultPresent(s) ==
    \/ IsSome(s.transportationResults)
    \/ IsSome(s.accommodationResults)
    \/ IsSome(s.activitiesResults)

\* C28: the search node allocates and searches only when the results of all
\* three categories are absent; executed while any of them is present it
\* issues no query and changes nothing but currentNode, which it sets to
\* generate_plan.
C28_SearchOnlyWithoutResults ==
    [][last'.primed = "search_options" =>
          LET pre == HandedToNextNode(state, last'.input, last'.updates) IN
          /\ AnyResultPresent(pre) =>
                /\ last'.search.branch = "skipped"
                /\ state' = [pre EXCEPT !.currentNode = "generate_plan"]
          /\ last'.search.branch # "skipped" => ~AnyResultPresent(pre)]_vars

\* The search node was executed while the accommodation results of the
\* search before were still held, and it searched nothing.
C28_SearchSkippedOverResults ==
    /\ last.primed = "search_options"
    /\ last.search.branch = "skipped"
    /\ IsSome(state.accommodationResults)
    /\ ~IsSome(state.transportationResults)

(***************************************************************************)
(* Properties of the validation-handling node (checked under SpecSearch).  *)
(***************************************************************************)
\* Texts that the handler reads as commands once its summary was shown.
CommandTexts ==
    {"buses", "yes", "continue", "ok", "adjust dates", "$2,000", "900", "budget",
     "change preferences", "x"}

\* The fields the handler's first entry leaves alone.
KeptOnFirstEntry ==
    (DOMAIN createInitialState)
        \ {"responseMessage", "currentNode", "validationMessageShown", "lastUserInput"}

\* C29: executed while validationMessageShown is not true, the handler reads
\* no command from the input, whatever the text: it sets the flag, stays on
\* handle_validation_issues, returns the summary of the issues and leaves
\* every other field (issues, results, allocation, budget, dates,
\* transportationType) as it was; so does the call that executed it.
C29_FirstEntryReadsNoCommand ==
    (state.currentNode = "handle_validation_issues" /\ ~IsTrue(state.validationMessageShown)) =>
        \A i \in CommandTexts :
            LET entered == [state EXCEPT !.lastUserInput = Some(i)]
                u == handleValidationIssuesNode(entered)
                r == getResponse(state, i, NoGateway)
            IN  /\ u = [responseMessage |-> Some(validationSummary(entered)),
                        currentNode |-> "handle_validation_issues",
                        validationMessageShown |-> Some(TRUE)]
                /\ r.ran = "handle_validation_issues"
                /\ r.state.currentNode = "handle_validation_issues"
                /\ IsTrue(r.state.validationMessageShown)
                /\ \A f \in KeptOnFirstEntry : r.state[f] = state[f]

\* The handler has just shown its summary on the input "buses", with the
\* flights over their share and the flights still selected.
C29_BusesShownTheSummary ==
    /\ last.ran = "handle_validation_issues"
    /\ last.input = "buses"
    /\ "validationMessageShown" \in DOMAIN last.updates
    /\ last.updates.validationMessageShown = Some(TRUE)
    /\ IsTrue(state.flightsBudgetExceeded)
    /\ state.transportationType = Some("flights")
    /\ IsSome(state.transportationResults)

\* Texts that match several command patterns at once, and one that matches
\* none.
MixedCommands ==
    {"buses ok", "yes, continue", "ok adjust", "adjust budget 900", "change dates, fine",
     "change preferences, budget", "change preferences", "x"}

\* The node the stated order of the commands routes a (lower-cased) text to:
\* the first pattern that matches decides.
StatedTarget(s, input) ==
    IF /\ includes(input, "bus") \/ includes(input, "yes")
       /\ \/ HasIssueWith(s.budgetIssues, "FLIGHTS_BUDGET_EXCEEDED")
          \/ HasIssueWith(s.budgetIssues, "TOTAL_BUDGET_EXCEEDED")
    THEN "search_options"
    ELSE IF includes(input, "continue") \/ includes(input, "ok") \/ includes(input, "fine")
    THEN "generate_plan"
    ELSE IF includes(input, "adjust") \/ includes(input, "change dates")
    THEN "ask_start_date"
    ELSE IF HasDigit(input) \/ includes(input, "budget")
    THEN "search_options"
    ELSE IF includes(input, "change preferences")
    THEN "ask_planning_type"
    ELSE "generate_plan"

\* C30: when the handler reads a command, the first matching pattern in the
\* order bus/yes (with a flights or a total issue pending), continue/ok/fine,
\* adjust/change dates, an amount or "budget", change preferences decides,
\* and the handler routes to that pattern's node; a text that matches none
\* routes to generate_plan.
C30_FirstMatchingCommandDecides ==
    AwaitingCommand(state) =>
        \A i \in MixedCommands :
            handleValidationIssuesNode([state EXCEPT !.lastUserInput = Some(i)]).currentNode
                = StatedTarget(state, toLowerCase(i))

(***************************************************************************)
(* A second trip: a conversation that is carried on after its plan was     *)
(* delivered, without a reset, or that the handler's adjust-dates command  *)
(* sent back to the dates.  After a plan the engine keeps                  *)
(* conversationComplete, so every later call executes the current node     *)
(* alone, and a second search takes a call for each of the questions.      *)
(***************************************************************************)
\* The bound on the calls that continue a completed conversation here: the
\* questions again, the search and the handler's summary and command.
MaxCallsOfSecondTrip == 12

\* An extraction that names a category the engine does not have.
UnknownCategory == Some([planningTypes |-> <<"food">>, interests |-> ""])

\* A validation answer or none, after an extraction that threw or named the
\* unknown category.
TripGateways ==
    {[NoGateway EXCEPT !.plan = p, !.val = v] :
        p \in {None, UnknownCategory}, v \in {None, Some(OverBudgetEstimate)}}

\* A message while node is current (END: while no node of the table is).
Turn(node, I, O) ==
    /\ IF node = END THEN state.currentNode \notin nodes ELSE state.currentNode = node
    /\ \E i \in I, o \in O :
          ~isResetCommand(trim(i)) /\ CallWithin(i, o, MaxCallsOfSecondTrip)

NextSecondTrip ==
    \/ Reset({"reset"})
    \/ Turn(END, {"Lyon"}, Personalizations)
    \/ Turn("ask_origin", {"Lyon"}, Personalizations)
    \/ Turn("ask_destination", {"Oslo"}, Personalizations)
    \/ Turn("ask_start_date", {"March 16, 2026", "soon"}, Personalizations)
    \/ Turn("ask_end_date", {"March 20, 2026"}, Personalizations)
    \/ Turn("ask_travelers", {"2"}, Personalizations)
    \/ Turn("ask_budget", {"500", "1000", "x"}, Personalizations)
    \/ Turn("ask_purpose", {"vacation!"}, Personalizations)
    \/ Turn("ask_planning_type", {"all."}, TripGateways)
    \/ Turn("search_options", {"go on"}, TripGateways)
    \/ Turn("handle_validation_issues", {"continue", "no", "50", "adjust dates"}, TripGateways)
    \/ Turn("generate_plan", {"thanks"}, Personalizations)

SpecSecondTrip == Init /\ [][NextSecondTrip]_vars

\* C31: whenever a call ends with the search node having completed with
\* issues and routed to the validation-handling node, validationMessageShown
\* is not true, so that the handler's next execution announces the summary
\* before it reads a command.
C31_SummaryPendingAfterSearch ==
    /\ state.currentNode = "handle_validation_issues"
    /\ \/ last.primed = "search_options"
       \/ last.ran = "search_options" /\ last.primed = "none"
    => ~summaryShown(state)

\* The outcomes of one call that words the plan: it throws, it returns an
\* empty text, or it returns a text.
WordingOutcomes == {None, Some(""), Some("**Options:** ...")}

PlanCalls ==
    {[NoGateway EXCEPT !.words = w] : w \in Wordings}
    \cup SearchGateways

\* C32: the generate-plan node executed on any reachable state, whichever of
\* the gateway's calls fail while the results are ranked and the itinerary
\* is written, marks the conversation complete, routes to the terminal
\* sentinel and stores a non-empty plan; and a call of getResponse that
\* executes the node returns that plan and ends in that state, the node
\* being the last one the call executed.
C32_PlanNodeCompletesWithPlan ==
    /\ \A t \in WordingOutcomes, a \in WordingOutcomes,
          c \in WordingOutcomes, d \in WordingOutcomes :
          LET u == generatePlanNode(state, [trans |-> t, accom |-> a, act |-> c, itin |-> d])
          IN  /\ u.conversationComplete
              /\ u.currentNode = END
              /\ IsSome(u.responseMessage) /\ Val(u.responseMessage) # ""
    /\ \A i \in {"continue", "x"}, o \in PlanCalls :
          LET r == getResponse(state, i, o) IN
          "generate_plan" \in {r.ran, r.primed} =>
              /\ r.state.conversationComplete
              /\ r.state.currentNode = END
              /\ r.reply = buildTravelPlan(
                     IF r.ran = "generate_plan" THEN state
                     ELSE updateState(state, r.updates), o.words)
              /\ r.reply # ""
              /\ r.state.responseMessage = Some(r.reply)
              /\ r.ran = "generate_plan" => r.primed = "none"
    /\ "generate_plan" \in {last.ran, last.primed} =>
          /\ state.conversationComplete
          /\ state.currentNode = END
          /\ state.responseMessage = Some(reply) /\ reply # ""

\* The plan was delivered over results that were found, its ranking worded
\* by the gateway and its itinerary by the fallback.
C32_PlanOverRankedResults ==
    /\ "generate_plan" \in {last.ran, last.primed}
    /\ NonEmptyResults(state.transportationResults)
    /\ includes(reply, "**Best Transportation Options:**")
    /\ includes(reply, "Suggested Itinerary")
    /\ state.conversationComplete /\ state.currentNode = END

\* C33: a planningType the planning-type node has accepted, from the
\* gateway's answer or from the keywords, is a non-empty list of distinct
\* categories, each one of transportation, accommodation and activities;
\* and an answer in which neither path recognizes a category is accepted
\* with all three.
C33_PlanningTypeIsSetOfCategories ==
    /\ IsSome(state.planningType) =>
          LET planningType == Val(state.planningType) IN
          /\ Len(planningType) > 0
          /\ \A i \in 1..Len(planningType) : planningType[i] \in DOMAIN Categories
          /\ \A i \in 1..Len(planningType), j \in 1..Len(planningType) :
                planningType[i] = planningType[j] => i = j
    /\ state.currentNode = "ask_planning_type" =>
          \A p \in {None, Some([planningTypes |-> <<>>, interests |-> ""])} :
              getResponse(state, "surprise me", [NoGateway EXCEPT !.plan = p]).state.planningType
                  = Some(AllThree)

\* The first number written in text: the longest run of digits that starts
\* at the first digit of text; none when text has no digit.
FirstNumberIn(text) ==
    IF \E k \in 1..Len(text) : IsDigit(Ch(text, k))
    THEN LET first == CHOOSE k \in 1..Len(text) :
                          IsDigit(Ch(text, k)) /\ \A j \in 1..(k - 1) : ~IsDigit(Ch(text, j))
             end == CHOOSE k \in first..Len(text) :
                        /\ \A j \in first..k : IsDigit(Ch(text, j))
                        /\ k = Len(text) \/ ~IsDigit(Ch(text, k + 1))
         IN  Some(DecimalValue(Sub(text, first, end)))
    ELSE None

\* The whole number nearest to percent hundredths of total, a half going up.
ShareOf(total, percent) ==
    CHOOSE n \in 0..total : 100 * n <= total * percent + 50 /\ total * percent + 50 < 100 * (n + 1)

\* The allocation of the stated formula for a budget text and a
\* transportation type.
StatedAllocation(budget, transportationType) ==
    LET total == IF IsSome(budget) /\ IsSome(FirstNumberIn(Val(budget)))
                 THEN Val(FirstNumberIn(Val(budget))) ELSE 1000
    IN  [transportation |-> ShareOf(total, IF transportationType = Some("flights") THEN 40 ELSE 12),
         accommodation |-> ShareOf(total, 30),
         food |-> ShareOf(total, 20),
         activities |-> ShareOf(total, 8),
         contingency |-> ShareOf(total, 2)]

\* C34: when the allocation gateway fails (it throws, or its text holds no
\* JSON object that parses), the allocation engine returns the allocation of
\* the stated formula: in every state with a transportation type of flights
\* or buses, and so a search that completed stored it as budgetAllocation.
C34_FallbackAllocationIsTheFormula ==
    /\ state.transportationType \in {Some("flights"), Some("buses")} =>
          allocateBudget(state, None) = StatedAllocation(state.budget, state.transportationType)
    /\ last.search.branch = "searched" /\ ~IsSome(last.search.o.alloc) =>
          state.budgetAllocation
              = Some(StatedAllocation(last.search.with[6], state.transportationType))

\* A search for flights completed on the fallback allocation of a budget
\* without a number.
C34_FlightsOnDefaultTotal ==
    /\ last.search.branch = "searched" /\ ~IsSome(last.search.o.alloc)
    /\ state.transportationType = Some("flights")
    /\ last.search.with[6] = Some("flexible")
    /\ state.budgetAllocation = Some([transportation |-> 400, accommodation |-> 300,
                                      food |-> 200, activities |-> 80, contingency |-> 20])

\* C35: whenever handle_validation_issues is the current node, budgetIssues
\* or scheduleIssues holds an issue; and an execution of the handler that
\* leaves both lists empty leaves the handler as well.
C35_HandlerHasIssuesToReport ==
    /\ state.currentNode = "handle_validation_issues" =>
          \/ IsSome(state.budgetIssues) /\ Len(Val(state.budgetIssues)) > 0
          \/ IsSome(state.scheduleIssues) /\ Len(Val(state.scheduleIssues)) > 0
    /\ state.currentNode = "handle_validation_issues" =>
          \A i \in HandlerCommands \cup {"adjust dates", "x"} :
              LET after == getResponse(state, i, NoGateway).state IN
              after.budgetIssues = Some(<<>>) /\ after.scheduleIssues = Some(<<>>)
                  => after.currentNode # "handle_validation_issues"

\* The handler is current a second time, after a search for buses that found
\* the total exceeded again.
C35_HandlerAfterSecondSearch ==
    /\ state.currentNode = "handle_validation_issues"
    /\ SearchCount(state) = 2
    /\ state.transportationType = Some("buses")
    /\ HasIssueWith(state.budgetIssues, "TOTAL_BUDGET_EXCEEDED")

\* C36: in every reachable state totalBudgetExceeded is true exactly when
\* budgetIssues holds a TOTAL_BUDGET_EXCEEDED issue, and
\* flightsBudgetExceeded is true exactly when budgetIssues holds a
\* FLIGHTS_BUDGET_EXCEEDED issue.
C36_FlagsAgreeWithIssues ==
    /\ IsTrue(state.totalBudgetExceeded)
          <=> HasIssueWith(state.budgetIssues, "TOTAL_BUDGET_EXCEEDED")
    /\ IsTrue(state.flightsBudgetExceeded)
          <=> HasIssueWith(state.budgetIssues, "FLIGHTS_BUDGET_EXCEEDED")

\* C37: a budget the state holds, whether the budget node stored it or the
\* handler's new-budget command replaced it, is a text the budget node
\* accepts: it matches one of the node's patterns and its amount is not
\* below the node's threshold.
C37_StoredBudgetIsAcceptable ==
    IsSome(state.budget) =>
        "budget" \in DOMAIN askBudgetNode([state EXCEPT !.lastUserInput = state.budget])

\* C38: when a search has completed on a budget text in which the budget
\* node read an amount, the total the allocation engine and the validation
\* by the gateway computed with, and the amount the deterministic validation
\* computed with, are that amount.
C38_EnginesUseTheAcceptedAmount ==
    /\ last.search.branch = "searched"
    /\ IsSome(NumericBudget(state.budget))
    /\ "budget" \in DOMAIN askBudgetNode([state EXCEPT !.lastUserInput = state.budget])
    => /\ totalBudgetOf(state) = Val(NumericBudget(state.budget))
       /\ budgetAmountOf(state) = NumericBudget(state.budget)

\* The nodes that ask again after the dates were given up.
AskedAgain == SubSeq(AskNodes, 3, Len(AskNodes))

\* C39: the call that takes the handler's adjust-dates command leaves the
\* state without startDate, endDate and the three result fields, and with
\* the travelers, budget, purpose and planningType it had; and from then on
\* the ask nodes that accept an input are ask_start_date, ask_end_date,
\* ask_travelers, ask_budget, ask_purpose and ask_planning_type in that
\* order, the next search being made only when all six have accepted one.
C39_AdjustDatesAsksAgainInOrder ==
    /\ [](IsSome(hist.redo) =>
             /\ Val(hist.redo).asked = SubSeq(AskedAgain, 1, Len(Val(hist.redo).asked))
             /\ Val(hist.redo).searched => Val(hist.redo).asked = AskedAgain)
    /\ [][last'.ran = "handle_validation_issues" /\ "startDate" \in DOMAIN last'.updates =>
             /\ state'.startDate = None /\ state'.endDate = None
             /\ state'.transportationResults = None
             /\ state'.accommodationResults = None
             /\ state'.activitiesResults = None
             /\ state'.travelers = state.travelers /\ IsSome(state.travelers)
             /\ state'.budget = state.budget /\ IsSome(state.budget)
             /\ state'.purpose = state.purpose /\ IsSome(state.purpose)
             /\ state'.planningType = state.planningType /\ IsSome(state.planningType)
             /\ state'.currentNode = "ask_start_date"]_vars

\* After an adjust-dates command the six nodes accepted an input each and
\* the second search was made.
C39_SearchedAgainAfterNewDates ==
    /\ IsSome(hist.redo)
    /\ Val(hist.redo).searched
    /\ Val(hist.redo).asked = AskedAgain
    /\ SearchCount(state) = 2
    /\ last.ran = "ask_planning_type"
    /\ last.primed = "search_options"

(***************************************************************************)
(* The cooperative user: every message is a valid answer to the question   *)
(* of the node that receives it, every validation summary is answered with *)
(* "continue", and the user goes on sending messages until the plan is     *)
(* delivered (weak fairness of the step).  The gateways answer or fail as  *)
(* they like.                                                              *)
(***************************************************************************)
ValidAnswers ==
    [ask_origin |-> {"Lyon"}, ask_destination |-> {"Oslo"},
     ask_start_date |-> {"March 16", "March 16, 2026"},
     ask_end_date |-> {"March 20", "March 20, 2026"},
     ask_travelers |-> {"2"}, ask_budget |-> {"500", "flexible"},
     ask_purpose |-> {"vacation!"}, ask_planning_type |-> {"all."},
     handle_validation_issues |-> {"continue"}, generate_plan |-> {"continue"}]

\* The date gateway throws, or it returns the day the user named.
DateGateways(day) ==
    {[o EXCEPT !.date = d] : o \in Personalizations, d \in {None, Some(day)}}

\* The extraction and the search that follows the accepted answer.
PlanGateways ==
    {[o EXCEPT !.plan = p] : o \in SearchGateways, p \in PlanOutcomes}

\* A valid answer to node while the conversation is not completed.
Cooperate(node, O) ==
    /\ ~state.conversationComplete
    /\ ReceivingNode(state) = node
    /\ \E i \in ValidAnswers[node], o \in O : Call(i, o)

NextCooperative ==
    \/ Cooperate("ask_origin", Personalizations)
    \/ Cooperate("ask_destination", Personalizations)
    \/ Cooperate("ask_start_date", DateGateways("2026-03-16"))
    \/ Cooperate("ask_end_date", DateGateways("2026-03-20"))
    \/ Cooperate("ask_travelers", Personalizations)
    \/ Cooperate("ask_budget", Personalizations)
    \/ Cooperate("ask_purpose", Personalizations)
    \/ Cooperate("ask_planning_type", PlanGateways)
    \/ Cooperate("handle_validation_issues", {[NoGateway EXCEPT !.words = w] : w \in Wordings})
    \/ Cooperate("generate_plan", {[NoGateway EXCEPT !.words = w] : w \in Wordings})

SpecCooperative == Init /\ [][NextCooperative]_vars /\ WF_vars(NextCooperative)

\* C40: with a cooperative user every conversation that is not completed
\* comes to the terminal sentinel with conversationComplete set, whatever
\* the gateways do, and it searches once only.
C40_CooperativeConversationCompletes ==
    /\ ~state.conversationComplete ~> (state.conversationComplete /\ state.currentNode = END)
    /\ [](SearchCount(state) <= 1)

====
